---------------------------- MODULE Spec2Model ----------------------------
(***************************************************************************)
(* A model of quarkchain/cluster/shard_db_operator.py: ShardDbOperator     *)
(* (the per-shard block store, its caches, the transaction index) and      *)
(* TransactionHistoryMixin (the address-history index and its paginated    *)
(* reverse range scan).                                                    *)
(*                                                                         *)
(* Byte strings are sequences of numbers 0..255.  The key-value store is   *)
(* a record with one field per key prefix ("mblock_", "tx_count_", ...):   *)
(* no prefix is a prefix of another, so a key of one namespace never       *)
(* equals a key of another.  Every "addr_" key starts with the byte 'a'    *)
(* and every other prefix with a greater byte, so the reverse range scan   *)
(* of get_transactions_by_address, whose bounds both start with "addr_",   *)
(* only ever meets "addr_" keys; these are kept as full byte strings.      *)
(***************************************************************************)
EXTENDS Integers, Sequences, FiniteSets, TLC

VARIABLES
    db,                             \* self.db: the key-value store
    env,                            \* self.env: the configuration read by the operator
    m_header_pool,                  \* self.m_header_pool: hash -> minor header
    m_meta_pool,                    \* self.m_meta_pool: hash -> minor meta
    x_shard_set,                    \* self.x_shard_set (never written)
    r_header_pool,                  \* self.r_header_pool: hash -> root header
    height_to_minor_block_hashes,   \* self.height_to_minor_block_hashes
    last,                           \* history: the last call, its arguments and what it returned
    put_log,                        \* history: hashes passed to put_minor_block on this instance
    parent_first,                   \* history: every put so far found the block's parent stored
    scan                            \* history: a caller paging through one address's history

vars == <<db, env, m_header_pool, m_meta_pool, x_shard_set, r_header_pool,
          height_to_minor_block_hashes, last, put_log, parent_first, scan>>

-----------------------------------------------------------------------------
(* Bounds of the model.                                                    *)

\* page sizes asked of get_transactions_by_address are 1..MaxLimit
MaxLimit == 2
\* max_root_blocks_in_memory and max_minor_blocks_in_memory range over 1..MaxInMemory
MaxInMemory == 3
\* target heights asked of get_root_block_header_by_height are 0..MaxTarget
MaxTarget == 4

-----------------------------------------------------------------------------
(* Optional values, partial maps, byte strings.                            *)

None == <<>>
Some(x) == <<x>>
IsNone(o) == o = <<>>
Val(o) == o[1]

EmptyMap == [x \in {} |-> 0]
MapPut(f, k, v) == [x \in (DOMAIN f) \cup {k} |-> IF x = k THEN v ELSE f[x]]
MapRemove(f, k) == [x \in (DOMAIN f) \ {k} |-> f[x]]
MapGet(f, k) == IF k \in DOMAIN f THEN Some(f[k]) ELSE None

RECURSIVE Pow256(_)
Pow256(n) == IF n = 0 THEN 1 ELSE 256 * Pow256(n - 1)

\* n.to_bytes(w, "big"): the w bytes of n, most significant first, and OverflowError for
\* a negative n or one that does not fit in w bytes.  The integers of the model are below
\* 2^31, so that an n >= 0 always fits in 4 bytes or more and has 0 in every byte above
\* the fourth from the right.
ToBytes(n, w) ==
    IF n < 0 \/ (w < 4 /\ n >= Pow256(w)) THEN "OverflowError"
    ELSE [i \in 1..w |-> IF w - i > 3 THEN 0 ELSE (n \div Pow256(w - i)) % 256]

\* int.from_bytes(s, "big"), for byte strings whose value is below 2^31
RECURSIVE FromBytes(_)
FromBytes(s) ==
    IF Len(s) = 0 THEN 0 ELSE 256 * FromBytes(SubSeq(s, 1, Len(s) - 1)) + s[Len(s)]

\* Python's order on bytes: the first differing byte decides, a proper prefix is smaller
BytesLess(a, b) ==
    LET n == IF Len(a) < Len(b) THEN Len(a) ELSE Len(b)
        differ == {i \in 1..n : a[i] # b[i]}
    IN  IF differ = {} THEN Len(a) < Len(b)
        ELSE LET first == CHOOSE i \in differ : \A j \in differ : i <= j
             IN  a[first] < b[first]

BytesLeq(a, b) == a = b \/ BytesLess(a, b)

\* (int.from_bytes(s, "big") + 1).to_bytes(len(s), "big"); None is OverflowError
RECURSIVE BytesPlusOne(_)
BytesPlusOne(s) ==
    IF Len(s) = 0 THEN None
    ELSE LET n == Len(s) IN
         IF s[n] < 255 THEN Some([s EXCEPT ![n] = s[n] + 1])
         ELSE LET hi == BytesPlusOne(SubSeq(s, 1, n - 1)) IN
              IF IsNone(hi) THEN None ELSE Some(Append(Val(hi), 0))

\* (int.from_bytes(s, "big") - 1).to_bytes(len(s), "big"); None is OverflowError
RECURSIVE BytesMinusOne(_)
BytesMinusOne(s) ==
    IF Len(s) = 0 THEN None
    ELSE LET n == Len(s) IN
         IF s[n] > 0 THEN Some([s EXCEPT ![n] = s[n] - 1])
         ELSE LET hi == BytesMinusOne(SubSeq(s, 1, n - 1)) IN
              IF IsNone(hi) THEN None ELSE Some(Append(Val(hi), 255))

Zeros(n) == [i \in 1..n |-> 0]

-----------------------------------------------------------------------------
(* The values the operator is given.  Addresses, transactions, deposits    *)
(* and blocks are built by quarkchain.core; the operator reads the fields  *)
(* named here.  A hash is the content hash of the hashed object: distinct  *)
(* objects have distinct hashes, 0 stands for the all-zero hash bytes(32). *)

\* Address(recipient, full_shard_key); recipient 0 stands for the empty recipient b""
Address(recipient, full_shard_key) ==
    [recipient |-> recipient, full_shard_key |-> full_shard_key]

AddrX == Address(1, 0)
AddrY == Address(1, 1)
AddrZ == Address(2, 0)

\* address.serialize(): 20 bytes of recipient, then the shard key as 4 bytes big-endian
AddressSerialize(a) == Zeros(19) \o <<a.recipient>> \o ToBytes(a.full_shard_key, 4)

\* the shard this operator serves: chain 0, shard 0 of 2
Branch == [chain_id |-> 0, shard_size |-> 2, shard_id |-> 0]

\* self.branch.is_in_branch(full_shard_key)
IsInBranch(full_shard_key) ==
    /\ full_shard_key \div 65536 = Branch.chain_id
    /\ full_shard_key % Branch.shard_size = Branch.shard_id

\* tx.tx.to_evm_tx(): the fields of a transaction the operator reads
Tx(id, sender, from_key, to, to_key) ==
    [id |-> id, sender |-> sender, from_full_shard_key |-> from_key,
     to |-> to, to_full_shard_key |-> to_key]

T1 == Tx(1, 1, 0, 2, 0)   \* X -> Z, recipient in this shard
T2 == Tx(2, 1, 0, 0, 0)   \* X deploys a contract: no recipient
T3 == Tx(3, 2, 0, 1, 1)   \* Z -> Y, recipient in another shard
T4 == Tx(4, 1, 1, 1, 0)   \* Y -> X
Transactions == {T1, T2, T3, T4}

\* tx.get_hash()
TxHash(tx) == 30 + tx.id

\* CrossShardTransactionDeposit: tx_hash 0 is bytes(32), the coinbase marker
Deposit(tx_hash, to_address) ==
    [tx_hash |-> tx_hash, from_address |-> Address(3, 65536), to_address |-> to_address]

D0 == Deposit(0, AddrX)
D1 == Deposit(41, AddrX)
D2 == Deposit(42, AddrY)

MinorBlock(height, prev, time, txs) ==
    [header |-> [height |-> height, hash_prev_minor_block |-> prev, create_time |-> time],
     meta |-> [hash_evm_state_root |-> 50 + time],
     tx_list |-> txs]

\* the minor blocks of the model; the block at position i has hash 10 + i
MinorBlockList ==
    << MinorBlock(0, 0, 1, <<>>),           \* 11  genesis
       MinorBlock(1, 11, 2, <<T1, T2>>),    \* 12
       MinorBlock(2, 12, 3, <<T3>>),        \* 13
       MinorBlock(3, 13, 4, <<T2>>),        \* 14
       MinorBlock(4, 14, 5, <<T1, T3>>),    \* 15
       MinorBlock(3, 13, 6, <<T1>>),        \* 16  fork of 14
       MinorBlock(3, 13, 7, <<>>),          \* 17  fork of 14
       MinorBlock(4, 16, 8, <<T4>>),        \* 18  child of the fork 16
       MinorBlock(2, 12, 9, <<T4, T1>>) >>  \* 19  fork of 13

MinorBlocks == {MinorBlockList[i] : i \in DOMAIN MinorBlockList}

\* m_block.header.get_hash()
MinorHash(header) ==
    10 + (CHOOSE i \in DOMAIN MinorBlockList : MinorBlockList[i].header = header)

MinorBlockOf(h) == MinorBlockList[h - 10]

\* m_block.serialize() and MinorBlock.deserialize(data)
MinorBlockSerialize(b) == <<"MinorBlock", b.header, b.meta, b.tx_list>>
MinorBlockDeserialize(data) == [header |-> data[2], meta |-> data[3], tx_list |-> data[4]]

\* CrossShardTransactionList(l).serialize() and .deserialize(data).tx_list
XshardListSerialize(l) == <<"CrossShardTransactionList", l>>
XshardListDeserialize(data) == data[2]

RootBlock(height, prev, time) ==
    [header |-> [height |-> height, hash_prev_block |-> prev, create_time |-> time]]

\* the root blocks of the model; the block at position i has hash 20 + i
RootBlockList ==
    << RootBlock(0, 0, 1),     \* 21  genesis
       RootBlock(1, 21, 2),    \* 22
       RootBlock(2, 22, 3),    \* 23
       RootBlock(3, 23, 4),    \* 24
       RootBlock(2, 22, 5),    \* 25  fork of 23
       RootBlock(3, 22, 6) >>  \* 26  its parent 22 is two heights below

\* root_block.header.get_hash()
RootHash(header) ==
    20 + (CHOOSE i \in DOMAIN RootBlockList : RootBlockList[i].header = header)

RootBlockOf(h) == RootBlockList[h - 20]

\* root_block.serialize() and RootBlock.deserialize(data)
RootBlockSerialize(b) == <<"RootBlock", b.header>>
RootBlockDeserialize(data) == [header |-> data[2]]

-----------------------------------------------------------------------------
(* The store and the operator after construction.                          *)

\* an empty store: one map per key prefix; addr holds the "addr_" keys (their value is b"")
EmptyDb ==
    [rblock |-> EmptyMap, r_last_m |-> EmptyMap, genesis |-> EmptyMap,
     mblock |-> EmptyMap, tx_count |-> EmptyMap, mi |-> EmptyMap,
     txindex |-> EmptyMap, xShard |-> EmptyMap, xr |-> EmptyMap, addr |-> {}]

\* the configuration values the operator reads from self.env
Env(history, max_root, max_minor, genesis_root_height) ==
    [ENABLE_TRANSACTION_HISTORY |-> history,
     max_root_blocks_in_memory |-> max_root,
     max_minor_blocks_in_memory |-> max_minor,
     genesis_root_height |-> genesis_root_height]

Last(op, arg, ret) == [op |-> op, arg |-> arg, ret |-> ret, pre |-> <<>>, rep |-> FALSE]

NoScan == [state |-> "none"]

\* ShardDbOperator.__init__(db, env, branch) over the store d
InitOver(d, e) ==
    /\ db = d
    /\ env = e
    /\ m_header_pool = EmptyMap
    /\ m_meta_pool = EmptyMap
    /\ x_shard_set = {}
    /\ r_header_pool = EmptyMap
    /\ height_to_minor_block_hashes = EmptyMap
    /\ last = Last("init", <<>>, None)
    /\ put_log = {}
    /\ parent_first = TRUE
    /\ scan = NoScan

\* ShardDbOperator.__init__ over an empty store
InitWith(e) == InitOver(EmptyDb, e)

\* ShardDbOperator.__init__ over the store of an earlier instance (a restart)
Restart ==
    /\ m_header_pool' = EmptyMap
    /\ m_meta_pool' = EmptyMap
    /\ x_shard_set' = {}
    /\ r_header_pool' = EmptyMap
    /\ height_to_minor_block_hashes' = EmptyMap
    /\ last' = Last("init", <<>>, None)
    /\ put_log' = {}
    /\ scan' = NoScan
    /\ UNCHANGED <<db, env, parent_first>>

-----------------------------------------------------------------------------
(* Minor block operations.                                                 *)

\* get_total_tx_count(m_block_hash)
GetTotalTxCount(d, m_block_hash) ==
    IF m_block_hash \in DOMAIN d.tx_count /\ Len(d.tx_count[m_block_hash]) > 0
    THEN FromBytes(d.tx_count[m_block_hash])
    ELSE 0

\* put_total_tx_count(m_block): the store after it
PutTotalTxCountStale(d, m_block) ==
    [d EXCEPT !.tx_count =
        MapPut(@, MinorHash(m_block.header), ToBytes(Len(m_block.tx_list), 4))]

PutTotalTxCount(d, m_block) ==
    LET prev_count ==
            IF m_block.header.height > 2
            THEN GetTotalTxCount(d, m_block.header.hash_prev_minor_block)
            ELSE 0
        count == prev_count + Len(m_block.tx_list)
    IN  [d EXCEPT !.tx_count = MapPut(@, MinorHash(m_block.header), ToBytes(count, 4))]

\* put_confirmed_cross_shard_transaction_deposit_list(minor_block_hash, list): the store after it
PutConfirmedCrossShardTransactionDepositList(d, e, minor_block_hash, xs) ==
    IF ~e.ENABLE_TRANSACTION_HISTORY THEN d
    ELSE [d EXCEPT !.xr = MapPut(@, minor_block_hash, XshardListSerialize(xs))]

\* __get_confirmed_cross_shard_transaction_deposit_list(minor_block_hash)
GetConfirmedCrossShardTransactionDepositList(d, minor_block_hash) ==
    IF minor_block_hash \in DOMAIN d.xr
    THEN XshardListDeserialize(d.xr[minor_block_hash])
    ELSE <<>>

\* get_minor_block_by_hash(h): the stored block or None
GetMinorBlockByHash(d, h) ==
    IF h \in DOMAIN d.mblock THEN Some(MinorBlockDeserialize(d.mblock[h])) ELSE None

\* contain_minor_block_by_hash(h)
ContainMinorBlockByHash(d, pool, h) == h \in DOMAIN pool \/ h \in DOMAIN d.mblock

\* get_minor_block_by_height(height): the block of the positional index or None
GetMinorBlockByHeight(d, height) ==
    IF height \notin DOMAIN d.mi THEN None ELSE GetMinorBlockByHash(d, d.mi[height])

\* get_block_count_by_height(height): what it returns
BlockCountByHeight(h2m, height) ==
    IF height \in DOMAIN h2m THEN Cardinality(h2m[height]) ELSE 0

\* put_minor_block(m_block, x_shard_receive_tx_list): the store after it
PutMinorBlockDb(d, e, m_block, xs) ==
    LET m_block_hash == MinorHash(m_block.header)
        d1 == [d EXCEPT !.mblock = MapPut(@, m_block_hash, MinorBlockSerialize(m_block))]
        d2 == PutTotalTxCount(d1, m_block)
    IN  PutConfirmedCrossShardTransactionDepositList(d2, e, m_block_hash, xs)

\* put_minor_block: height_to_minor_block_hashes after it
PutMinorBlockHeights(h2m, m_block) ==
    LET height == m_block.header.height
        old == IF height \in DOMAIN h2m THEN h2m[height] ELSE {}
    IN  MapPut(h2m, height, old \cup {MinorHash(m_block.header)})

PutMinorBlock(m_block, xs) ==
    LET m_block_hash == MinorHash(m_block.header) IN
    /\ db' = PutMinorBlockDb(db, env, m_block, xs)
    /\ m_header_pool' = MapPut(m_header_pool, m_block_hash, m_block.header)
    /\ m_meta_pool' = MapPut(m_meta_pool, m_block_hash, m_block.meta)
    /\ height_to_minor_block_hashes' =
           PutMinorBlockHeights(height_to_minor_block_hashes, m_block)
    /\ last' = Last("put_minor_block", m_block_hash, None)
    /\ put_log' = put_log \cup {m_block_hash}
    /\ parent_first' =
           (parent_first /\ (m_block.header.height > 2 =>
                m_block.header.hash_prev_minor_block \in DOMAIN db.mblock))
    /\ scan' = NoScan
    /\ UNCHANGED <<env, x_shard_set, r_header_pool>>

\* put_minor_block_index(block): the store after it
PutMinorBlockIndexDb(d, block) ==
    [d EXCEPT !.mi = MapPut(@, block.header.height, MinorHash(block.header))]

PutMinorBlockIndex(block) ==
    /\ db' = PutMinorBlockIndexDb(db, block)
    /\ last' = Last("put_minor_block_index", MinorHash(block.header), None)
    /\ scan' = NoScan
    /\ UNCHANGED <<env, m_header_pool, m_meta_pool, x_shard_set, r_header_pool,
                   height_to_minor_block_hashes, put_log, parent_first>>

RemoveMinorBlockIndexDbWithPayload(d, block) ==
    [d EXCEPT !.mi = MapRemove(@, block.header.height),
              !.mblock = MapRemove(@, MinorHash(block.header))]

\* remove_minor_block_index(block): the store after it
RemoveMinorBlockIndexDb(d, block) ==
    [d EXCEPT !.mi = MapRemove(@, block.header.height)]

RemoveMinorBlockIndexHeightsPruned(h2m, block) ==
    IF block.header.height \in DOMAIN h2m
    THEN [h2m EXCEPT ![block.header.height] = @ \ {MinorHash(block.header)}]
    ELSE h2m

\* remove_minor_block_index: height_to_minor_block_hashes after it (it is not touched)
RemoveMinorBlockIndexHeights(h2m, block) == h2m

RemoveMinorBlockIndex(block) ==
    /\ db' = RemoveMinorBlockIndexDb(db, block)
    /\ height_to_minor_block_hashes' =
           RemoveMinorBlockIndexHeights(height_to_minor_block_hashes, block)
    /\ last' = Last("remove_minor_block_index", MinorHash(block.header), None)
    /\ scan' = NoScan
    /\ UNCHANGED <<env, m_header_pool, m_meta_pool, x_shard_set, r_header_pool,
                   put_log, parent_first>>

\* get_minor_block_header_by_hash(h): what it returns
MinorBlockHeaderByHash(d, h) ==
    LET block == GetMinorBlockByHash(d, h) IN
    IF IsNone(block) THEN None ELSE Some(Val(block).header)

\* get_minor_block_meta_by_hash(h): what it returns
MinorBlockMetaByHash(d, h) ==
    LET block == GetMinorBlockByHash(d, h) IN
    IF IsNone(block) THEN None ELSE Some(Val(block).meta)

\* get_minor_block_header_by_hash(h): read from the store, cache the header
GetMinorBlockHeaderByHash(h) ==
    LET header == MinorBlockHeaderByHash(db, h) IN
    /\ m_header_pool' =
           IF IsNone(header) THEN m_header_pool ELSE MapPut(m_header_pool, h, Val(header))
    /\ last' = Last("get_minor_block_header_by_hash", h, header)
    /\ scan' = NoScan
    /\ UNCHANGED <<db, env, m_meta_pool, x_shard_set, r_header_pool,
                   height_to_minor_block_hashes, put_log, parent_first>>

\* get_minor_block_meta_by_hash(h): read from the store, cache the meta
GetMinorBlockMetaByHash(h) ==
    LET meta == MinorBlockMetaByHash(db, h) IN
    /\ m_meta_pool' =
           IF IsNone(meta) THEN m_meta_pool ELSE MapPut(m_meta_pool, h, Val(meta))
    /\ last' = Last("get_minor_block_meta_by_hash", h, meta)
    /\ scan' = NoScan
    /\ UNCHANGED <<db, env, m_header_pool, x_shard_set, r_header_pool,
                   height_to_minor_block_hashes, put_log, parent_first>>

\* get_minor_block_evm_root_hash_by_hash(h): the state root of the meta that
\* get_minor_block_meta_by_hash(h) returns (and caches), None when there is no block
GetMinorBlockEvmRootHashByHash(h) ==
    LET meta == MinorBlockMetaByHash(db, h) IN
    /\ m_meta_pool' =
           IF IsNone(meta) THEN m_meta_pool ELSE MapPut(m_meta_pool, h, Val(meta))
    /\ last' = Last("get_minor_block_evm_root_hash_by_hash", h,
                    IF IsNone(meta) THEN None ELSE Some(Val(meta).hash_evm_state_root))
    /\ scan' = NoScan
    /\ UNCHANGED <<db, env, m_header_pool, x_shard_set, r_header_pool,
                   height_to_minor_block_hashes, put_log, parent_first>>

\* get_last_confirmed_minor_block_header_at_root_block(root_hash): None when nothing or
\* b"" is stored under "r_last_m" + root_hash, else what get_minor_block_header_by_hash
\* returns (and caches) for the hash stored there
GetLastConfirmedMinorBlockHeaderAtRootBlock(root_hash) ==
    LET r_minor_header_hash ==
            IF root_hash \in DOMAIN db.r_last_m THEN db.r_last_m[root_hash] ELSE None
        header ==
            IF IsNone(r_minor_header_hash) THEN None
            ELSE MinorBlockHeaderByHash(db, Val(r_minor_header_hash))
    IN  /\ m_header_pool' =
               IF IsNone(header) THEN m_header_pool
               ELSE MapPut(m_header_pool, Val(r_minor_header_hash), Val(header))
        /\ last' = Last("get_last_confirmed_minor_block_header_at_root_block",
                        root_hash, header)
        /\ scan' = NoScan
        /\ UNCHANGED <<db, env, m_meta_pool, x_shard_set, r_header_pool,
                       height_to_minor_block_hashes, put_log, parent_first>>

\* get_block_count_by_height(height): setdefault leaves an empty set behind
GetBlockCountByHeight(height) ==
    /\ height_to_minor_block_hashes' =
           IF height \in DOMAIN height_to_minor_block_hashes
           THEN height_to_minor_block_hashes
           ELSE MapPut(height_to_minor_block_hashes, height, {})
    /\ last' = Last("get_block_count_by_height", height,
                    BlockCountByHeight(height_to_minor_block_hashes', height))
    /\ scan' = NoScan
    /\ UNCHANGED <<db, env, m_header_pool, m_meta_pool, x_shard_set, r_header_pool,
                   put_log, parent_first>>

-----------------------------------------------------------------------------
(* Transaction index and address-history index.                            *)

\* b"addr_"
AddrPrefix == <<97, 100, 100, 114, 95>>

\* __encode_address_transaction_key(address, height, index, cross_shard)
EncodeAddressTransactionKey(address, height, index, cross_shard) ==
    AddrPrefix \o AddressSerialize(address) \o ToBytes(height, 4)
        \o <<IF cross_shard THEN 0 ELSE 1>> \o ToBytes(index, 4)

\* func(key, b""): db.put(k, v) when put, db.remove(k) otherwise
HistoryFunc(d, key, put) ==
    [d EXCEPT !.addr = IF put THEN @ \cup {key} ELSE @ \ {key}]

\* the keys __update_transaction_history_index hands to func
TransactionHistoryKeys(tx, block_height, index) ==
    {EncodeAddressTransactionKey(Address(tx.sender, tx.from_full_shard_key),
                                 block_height, index, FALSE)}
    \cup (IF tx.to # 0 /\ IsInBranch(tx.to_full_shard_key)
          THEN {EncodeAddressTransactionKey(Address(tx.to, tx.to_full_shard_key),
                                            block_height, index, FALSE)}
          ELSE {})

UpdateTransactionHistoryIndexSenderOnly(d, tx, block_height, index, put) ==
    LET sender == EncodeAddressTransactionKey(
                      Address(tx.sender, tx.from_full_shard_key), block_height, index, FALSE)
        d1 == HistoryFunc(d, sender, put)
    IN  IF put /\ tx.to # 0 /\ IsInBranch(tx.to_full_shard_key)
        THEN HistoryFunc(d1, EncodeAddressTransactionKey(
                 Address(tx.to, tx.to_full_shard_key), block_height, index, FALSE), put)
        ELSE d1

\* __update_transaction_history_index(tx, block_height, index, func): the store after it
UpdateTransactionHistoryIndex(d, tx, block_height, index, put) ==
    LET sender == EncodeAddressTransactionKey(
                      Address(tx.sender, tx.from_full_shard_key), block_height, index, FALSE)
        d1 == HistoryFunc(d, sender, put)
    IN  IF tx.to # 0 /\ IsInBranch(tx.to_full_shard_key)
        THEN HistoryFunc(d1, EncodeAddressTransactionKey(
                 Address(tx.to, tx.to_full_shard_key), block_height, index, FALSE), put)
        ELSE d1

\* put_transaction_history_index(tx, block_height, index)
PutTransactionHistoryIndex(d, e, tx, block_height, index) ==
    IF ~e.ENABLE_TRANSACTION_HISTORY THEN d
    ELSE UpdateTransactionHistoryIndex(d, tx, block_height, index, TRUE)

RemoveTransactionHistoryIndexAlways(d, e, tx, block_height, index) ==
    UpdateTransactionHistoryIndex(d, tx, block_height, index, FALSE)

\* remove_transaction_history_index(tx, block_height, index)
RemoveTransactionHistoryIndex(d, e, tx, block_height, index) ==
    IF ~e.ENABLE_TRANSACTION_HISTORY THEN d
    ELSE UpdateTransactionHistoryIndex(d, tx, block_height, index, FALSE)

RECURSIVE UpdateDepositsWithCoinbase(_, _, _, _, _)
UpdateDepositsWithCoinbase(d, xs, height, i, put) ==
    IF i > Len(xs) THEN d
    ELSE UpdateDepositsWithCoinbase(
             HistoryFunc(d, EncodeAddressTransactionKey(xs[i].to_address, height, i - 1, TRUE),
                         put),
             xs, height, i + 1, put)

\* the loop of __update_transaction_history_index_from_block from position i on
RECURSIVE UpdateDeposits(_, _, _, _, _)
UpdateDeposits(d, xs, height, i, put) ==
    IF i > Len(xs) THEN d
    ELSE IF xs[i].tx_hash = 0 THEN UpdateDeposits(d, xs, height, i + 1, put)
    ELSE UpdateDeposits(
             HistoryFunc(d, EncodeAddressTransactionKey(xs[i].to_address, height, i - 1, TRUE),
                         put),
             xs, height, i + 1, put)

\* __update_transaction_history_index_from_block(minor_block, func): the store after it
UpdateTransactionHistoryIndexFromBlock(d, minor_block, put) ==
    UpdateDeposits(d,
        GetConfirmedCrossShardTransactionDepositList(d, MinorHash(minor_block.header)),
        minor_block.header.height, 1, put)

\* put_transaction_history_index_from_block(minor_block)
PutTransactionHistoryIndexFromBlock(d, e, minor_block) ==
    IF ~e.ENABLE_TRANSACTION_HISTORY THEN d
    ELSE UpdateTransactionHistoryIndexFromBlock(d, minor_block, TRUE)

\* remove_transaction_history_index_from_block(minor_block)
RemoveTransactionHistoryIndexFromBlock(d, e, minor_block) ==
    IF ~e.ENABLE_TRANSACTION_HISTORY THEN d
    ELSE UpdateTransactionHistoryIndexFromBlock(d, minor_block, FALSE)

PutTransactionIndexDbAppend(d, e, tx, block_height, index) ==
    LET location == ToBytes(block_height, 4) \o ToBytes(index, 4)
        old == IF TxHash(tx) \in DOMAIN d.txindex THEN d.txindex[TxHash(tx)] ELSE <<>>
        d1 == [d EXCEPT !.txindex = MapPut(@, TxHash(tx), old \o location)]
    IN  PutTransactionHistoryIndex(d1, e, tx, block_height, index)

\* put_transaction_index(tx, block_height, index): the store after it
PutTransactionIndexDb(d, e, tx, block_height, index) ==
    LET d1 == [d EXCEPT !.txindex =
                  MapPut(@, TxHash(tx), ToBytes(block_height, 4) \o ToBytes(index, 4))]
    IN  PutTransactionHistoryIndex(d1, e, tx, block_height, index)

\* remove_transaction_index(tx, block_height, index): the store after it
RemoveTransactionIndexDb(d, e, tx, block_height, index) ==
    LET d1 == [d EXCEPT !.txindex = MapRemove(@, TxHash(tx))]
    IN  RemoveTransactionHistoryIndex(d1, e, tx, block_height, index)

\* contain_transaction_hash(tx_hash)
ContainTransactionHash(d, tx_hash) == tx_hash \in DOMAIN d.txindex

\* the loops of put_/remove_transaction_index_from_block from position i on
RECURSIVE PutTransactions(_, _, _, _)
PutTransactions(d, e, minor_block, i) ==
    IF i > Len(minor_block.tx_list) THEN d
    ELSE PutTransactions(
             PutTransactionIndexDb(d, e, minor_block.tx_list[i],
                                   minor_block.header.height, i - 1),
             e, minor_block, i + 1)

RECURSIVE RemoveTransactions(_, _, _, _)
RemoveTransactions(d, e, minor_block, i) ==
    IF i > Len(minor_block.tx_list) THEN d
    ELSE RemoveTransactions(
             RemoveTransactionIndexDb(d, e, minor_block.tx_list[i],
                                      minor_block.header.height, i - 1),
             e, minor_block, i + 1)

\* put_transaction_index_from_block(minor_block): the store after it
PutTransactionIndexFromBlockDb(d, e, minor_block) ==
    PutTransactionHistoryIndexFromBlock(PutTransactions(d, e, minor_block, 1), e, minor_block)

RemoveTransactionIndexFromBlockDbWithDeposits(d, e, minor_block) ==
    LET d1 == RemoveTransactionHistoryIndexFromBlock(
                  RemoveTransactions(d, e, minor_block, 1), e, minor_block)
    IN  [d1 EXCEPT !.xr = MapRemove(@, MinorHash(minor_block.header))]

\* remove_transaction_index_from_block(minor_block): the store after it
RemoveTransactionIndexFromBlockDb(d, e, minor_block) ==
    RemoveTransactionHistoryIndexFromBlock(
        RemoveTransactions(d, e, minor_block, 1), e, minor_block)

\* frame of the four index operations: only the store changes
IndexFrame ==
    /\ scan' = NoScan
    /\ UNCHANGED <<env, m_header_pool, m_meta_pool, x_shard_set, r_header_pool,
                   height_to_minor_block_hashes, put_log, parent_first>>

\* last.rep: this call repeats the previous one; last.pre: the store before this call
PutTransactionIndex(tx, block_height, index) ==
    /\ db' = PutTransactionIndexDb(db, env, tx, block_height, index)
    /\ last' = [op |-> "put_transaction_index", arg |-> <<tx, block_height, index>>,
                ret |-> None, pre |-> db,
                rep |-> (last.op = "put_transaction_index"
                         /\ last.arg = <<tx, block_height, index>>)]
    /\ IndexFrame

\* last.rep: this call follows put_transaction_index of the same arguments;
\* last.pre: the store before that put
RemoveTransactionIndex(tx, block_height, index) ==
    LET undoes == last.op = "put_transaction_index"
                  /\ last.arg = <<tx, block_height, index>> IN
    /\ db' = RemoveTransactionIndexDb(db, env, tx, block_height, index)
    /\ last' = [op |-> "remove_transaction_index", arg |-> <<tx, block_height, index>>,
                ret |-> None, pre |-> IF undoes THEN last.pre ELSE <<>>, rep |-> undoes]
    /\ IndexFrame

PutTransactionIndexFromBlock(minor_block) ==
    /\ db' = PutTransactionIndexFromBlockDb(db, env, minor_block)
    /\ last' = [op |-> "put_transaction_index_from_block",
                arg |-> MinorHash(minor_block.header), ret |-> None, pre |-> db,
                rep |-> (last.op = "put_transaction_index_from_block"
                         /\ last.arg = MinorHash(minor_block.header))]
    /\ IndexFrame

RemoveTransactionIndexFromBlock(minor_block) ==
    /\ db' = RemoveTransactionIndexFromBlockDb(db, env, minor_block)
    /\ last' = Last("remove_transaction_index_from_block",
                    MinorHash(minor_block.header), None)
    /\ IndexFrame

-----------------------------------------------------------------------------
(* get_transactions_by_address.                                            *)

\* the "addr_" keys k of the store with end < k <= start
KeysInRange(d, start, end) == {k \in d.addr : BytesLess(end, k) /\ BytesLeq(k, start)}

\* the keys of a set in descending byte order
RECURSIVE Descending(_)
Descending(keys) ==
    IF keys = {} THEN <<>>
    ELSE LET top == CHOOSE k \in keys : \A j \in keys : BytesLeq(j, k)
         IN  <<top>> \o Descending(keys \ {top})

\* self.db.reversed_range_iter(start, end): the keys it yields, in the order it yields them
ReversedRangeIter(d, start, end) == Descending(KeysInRange(d, start, end))

\* m_block.get_receipt(self.db, index).success == b"\x01"
ReceiptSuccess(m_block, index) == m_block.tx_list[index + 1].to # 0

\* the fields of a history key: height = k[29:33], flag = k[33], index = k[34:]
KeyHeight(k) == FromBytes(SubSeq(k, 5 + 24 + 1, 5 + 24 + 4))
KeyCrossShard(k) == k[5 + 24 + 4 + 1] = 0
KeyIndex(k) == FromBytes(SubSeq(k, 5 + 24 + 4 + 1 + 1, Len(k)))

\* TransactionDetail(...) of a cross-shard deposit
DepositDetail(tx, height, m_block) ==
    [tx_hash |-> tx.tx_hash, from_address |-> Some(tx.from_address),
     to_address |-> Some(tx.to_address), block_height |-> height,
     timestamp |-> m_block.header.create_time, success |-> TRUE]

\* TransactionDetail(...) of a transaction of the block
TransactionDetail(tx, index, height, m_block) ==
    [tx_hash |-> TxHash(tx),
     from_address |-> Some(Address(tx.sender, tx.from_full_shard_key)),
     to_address |-> IF tx.to # 0 THEN Some(Address(tx.to, tx.to_full_shard_key)) ELSE None,
     block_height |-> height,
     timestamp |-> m_block.header.create_time,
     success |-> ReceiptSuccess(m_block, index)]

\* the row built from key k; None when building it raises (no block at the height in the
\* positional index: AttributeError; no such position in the list: IndexError)
RowOfKey(d, k) ==
    LET height == KeyHeight(k)
        index == KeyIndex(k)
        m_block == GetMinorBlockByHeight(d, height)
    IN  IF IsNone(m_block) THEN None
        ELSE IF KeyCrossShard(k)
        THEN LET x_shard_receive_tx_list ==
                     GetConfirmedCrossShardTransactionDepositList(
                         d, MinorHash(Val(m_block).header))
             IN  IF index >= Len(x_shard_receive_tx_list) THEN None
                 ELSE Some(DepositDetail(x_shard_receive_tx_list[index + 1], height,
                                         Val(m_block)))
        ELSE IF index >= Len(Val(m_block).tx_list) THEN None
             ELSE Some(TransactionDetail(Val(m_block).tx_list[index + 1], index, height,
                                         Val(m_block)))

LimitExhaustedLate(limit) == limit < 0

\* "limit -= 1; if limit < 0: break", for the value of limit before the decrement
LimitExhausted(limit) == limit - 1 < 0

NextCursorSame(k) == Some(k)

\* next = (int.from_bytes(k, "big") - 1).to_bytes(len(k), "big"); None is OverflowError
NextCursor(k) == BytesMinusOne(k)

\* the loop over the yielded keys from position i on; keys is the history of the keys
\* whose rows were appended
RECURSIVE ScanLoop(_, _, _, _, _, _, _)
ScanLoop(d, yielded, i, limit, tx_list, next, keys) ==
    IF i > Len(yielded) \/ LimitExhausted(limit)
    THEN [status |-> "return", tx_list |-> tx_list, next |-> next, keys |-> keys]
    ELSE LET k == yielded[i]
             row == RowOfKey(d, k)
         IN  IF IsNone(row) \/ IsNone(NextCursor(k))
             THEN [status |-> "raise", tx_list |-> tx_list, next |-> next, keys |-> keys]
             ELSE ScanLoop(d, yielded, i + 1, limit - 1, Append(tx_list, Val(row)),
                           Val(NextCursor(k)), Append(keys, k))

\* get_transactions_by_address(address, start, limit): [status, tx_list, next] and the
\* keys the rows were built from
TransactionsByAddress(d, e, address, start, limit) ==
    IF ~e.ENABLE_TRANSACTION_HISTORY
    THEN [status |-> "return", tx_list |-> <<>>, next |-> <<>>, keys |-> <<>>]
    ELSE LET end == AddrPrefix \o AddressSerialize(address)
             original_start == BytesPlusOne(end)
         IN  IF IsNone(original_start)
             THEN [status |-> "raise", tx_list |-> <<>>, next |-> end, keys |-> <<>>]
             ELSE LET start2 == IF start = <<>> \/ BytesLess(Val(original_start), start)
                                THEN Val(original_start) ELSE start
                  IN  ScanLoop(d, ReversedRangeIter(d, start2, end), 1, limit,
                               <<>>, end, <<>>)

\* get_transactions_by_address(address, start, limit) as a call of a paging caller:
\* first is TRUE for the call that opens a session with no cursor
CallGetTransactionsByAddress(address, start, limit, first) ==
    LET got == TransactionsByAddress(db, env, address, start, limit) IN
    /\ last' = Last("get_transactions_by_address", <<address, start, limit>>,
                    <<got.status, got.tx_list, got.next, got.keys>>)
    /\ scan' = [state |-> "paging",
                address |-> address,
                raised |-> got.status = "raise",
                cursor |-> got.next,
                keys |-> IF first THEN got.keys ELSE scan.keys \o got.keys,
                rows |-> IF first THEN got.tx_list ELSE scan.rows \o got.tx_list,
                page |-> got.keys,
                before |-> IF first THEN <<>> ELSE scan.keys]
    /\ UNCHANGED <<db, env, m_header_pool, m_meta_pool, x_shard_set, r_header_pool,
                   height_to_minor_block_hashes, put_log, parent_first>>

\* a caller's first page: no cursor
GetTransactionsByAddress(address, limit) ==
    CallGetTransactionsByAddress(address, <<>>, limit, TRUE)

\* a caller's next page: the cursor the previous call returned
GetMoreTransactionsByAddress(limit) ==
    /\ scan.state = "paging"
    /\ ~scan.raised
    /\ CallGetTransactionsByAddress(scan.address, scan.cursor, limit, FALSE)

-----------------------------------------------------------------------------
(* Root block operations.                                                  *)

\* put_root_block(root_block, r_minor_header, root_block_hash): the key it writes under
\* (root_block_hash is None or Some(hash))
PutRootBlockKey(root_block, root_block_hash) ==
    IF IsNone(root_block_hash) THEN RootHash(root_block.header) ELSE Val(root_block_hash)

\* put_root_block: the store after it (r_minor_header is None or Some(header); the
\* value under "r_last_m" is None for b"" and Some(hash) otherwise)
PutRootBlockDb(d, root_block, r_minor_header, root_block_hash) ==
    LET key == PutRootBlockKey(root_block, root_block_hash)
        r_minor_header_hash ==
            IF IsNone(r_minor_header) THEN None ELSE Some(MinorHash(Val(r_minor_header)))
    IN  [d EXCEPT !.rblock = MapPut(@, key, RootBlockSerialize(root_block)),
                  !.r_last_m = MapPut(@, key, r_minor_header_hash)]

PutRootBlock(root_block, r_minor_header, root_block_hash) ==
    /\ r_header_pool' = MapPut(r_header_pool,
                               PutRootBlockKey(root_block, root_block_hash),
                               root_block.header)
    /\ db' = PutRootBlockDb(db, root_block, r_minor_header, root_block_hash)
    /\ last' = Last("put_root_block",
                    <<RootHash(root_block.header), root_block_hash>>, None)
    /\ scan' = NoScan
    /\ UNCHANGED <<env, m_header_pool, m_meta_pool, x_shard_set,
                   height_to_minor_block_hashes, put_log, parent_first>>

\* get_root_block_by_hash(h): [ret |-> the block or None, pool |-> r_header_pool after it]
RootBlockByHash(d, pool, h) ==
    IF h \notin DOMAIN d.rblock THEN [ret |-> None, pool |-> pool]
    ELSE LET block == RootBlockDeserialize(d.rblock[h]) IN
         [ret |-> Some(block), pool |-> MapPut(pool, h, block.header)]

RootBlockHeaderByHashNoFill(d, pool, h) ==
    IF h \in DOMAIN pool THEN [ret |-> Some(pool[h]), pool |-> pool]
    ELSE LET got == RootBlockByHash(d, pool, h) IN
         IF IsNone(got.ret) THEN [ret |-> None, pool |-> pool]
         ELSE [ret |-> Some(Val(got.ret).header), pool |-> pool]

\* get_root_block_header_by_hash(h): [ret |-> the header or None, pool |-> the pool after it]
RootBlockHeaderByHash(d, pool, h) ==
    IF h \in DOMAIN pool THEN [ret |-> Some(pool[h]), pool |-> pool]
    ELSE LET got == RootBlockByHash(d, pool, h) IN
         IF IsNone(got.ret) THEN [ret |-> None, pool |-> got.pool]
         ELSE [ret |-> Some(Val(got.ret).header),
               pool |-> MapPut(got.pool, h, Val(got.ret).header)]

\* contain_root_block_by_hash(h)
ContainRootBlockByHash(d, pool, h) == h \in DOMAIN pool \/ h \in DOMAIN d.rblock

RootFrame ==
    /\ scan' = NoScan
    /\ UNCHANGED <<db, env, m_header_pool, m_meta_pool, x_shard_set,
                   height_to_minor_block_hashes, put_log, parent_first>>

GetRootBlockByHash(h) ==
    LET got == RootBlockByHash(db, r_header_pool, h) IN
    /\ r_header_pool' = got.pool
    /\ last' = Last("get_root_block_by_hash", h, got.ret)
    /\ RootFrame

GetRootBlockHeaderByHash(h) ==
    LET got == RootBlockHeaderByHash(db, r_header_pool, h) IN
    /\ r_header_pool' = got.pool
    /\ last' = [op |-> "get_root_block_header_by_hash", arg |-> h, ret |-> got.ret,
                pre |-> DOMAIN r_header_pool, rep |-> FALSE]
    /\ RootFrame

\* the loop of get_root_block_header_by_height with r_header at hand (None: the lookup
\* found nothing, and reading its height raises).  A hash looked up a second time
\* returns the same header again: the loop never ends ("hang").
RECURSIVE HeaderByHeightLoop(_, _, _, _, _)
HeaderByHeightLoop(d, pool, r_header, height, looked_up) ==
    IF IsNone(r_header) THEN [status |-> "raise", ret |-> None, pool |-> pool]
    ELSE IF height = Val(r_header).height
         THEN [status |-> "return", ret |-> r_header, pool |-> pool]
    ELSE LET prev == Val(r_header).hash_prev_block
             got == RootBlockHeaderByHash(d, pool, prev)
         IN  IF prev \in looked_up /\ ~IsNone(got.ret)
             THEN [status |-> "hang", ret |-> None, pool |-> got.pool]
             ELSE HeaderByHeightLoop(d, got.pool, got.ret, height, looked_up \cup {prev})

RootBlockHeaderByHeightOffByOne(d, pool, h, height) ==
    LET got == RootBlockHeaderByHash(d, pool, h) IN
    IF IsNone(got.ret) THEN [status |-> "raise", ret |-> None, pool |-> got.pool]
    ELSE IF height >= Val(got.ret).height
         THEN [status |-> "return", ret |-> None, pool |-> got.pool]
    ELSE HeaderByHeightLoop(d, got.pool, got.ret, height, {h})

\* get_root_block_header_by_height(h, height):
\* [status |-> "return" | "raise" | "hang", ret |-> the header or None, pool |-> the pool after]
RootBlockHeaderByHeight(d, pool, h, height) ==
    LET got == RootBlockHeaderByHash(d, pool, h) IN
    IF IsNone(got.ret) THEN [status |-> "raise", ret |-> None, pool |-> got.pool]
    ELSE IF height > Val(got.ret).height
         THEN [status |-> "return", ret |-> None, pool |-> got.pool]
    ELSE HeaderByHeightLoop(d, got.pool, got.ret, height, {h})

\* last.pre: the hashes cached before the call
GetRootBlockHeaderByHeight(h, height) ==
    LET got == RootBlockHeaderByHeight(db, r_header_pool, h, height) IN
    /\ r_header_pool' = got.pool
    /\ last' = [op |-> "get_root_block_header_by_height", arg |-> <<h, height>>,
                ret |-> <<got.status, got.ret>>, pre |-> DOMAIN r_header_pool,
                rep |-> FALSE]
    /\ RootFrame

-----------------------------------------------------------------------------
(* recover_state.                                                          *)

RECURSIVE RecoverRootLoopBelowGenesis(_, _, _, _, _)
RecoverRootLoopBelowGenesis(d, e, pool, r_hash, stale) ==
    IF Cardinality(DOMAIN pool) >= e.max_root_blocks_in_memory
    THEN [status |-> "ok", pool |-> pool]
    ELSE IF r_hash \notin DOMAIN d.rblock THEN [status |-> "raise", pool |-> pool]
    ELSE LET header == RootBlockDeserialize(d.rblock[r_hash]).header
             pool2 == MapPut(pool, r_hash, header)
         IN  IF header.height < e.genesis_root_height
             THEN [status |-> "ok", pool |-> pool2]
             ELSE IF pool2 = pool /\ r_hash \in stale
             THEN [status |-> "hang", pool |-> pool2]
             ELSE RecoverRootLoopBelowGenesis(d, e, pool2, header.hash_prev_block,
                                              IF pool2 = pool THEN stale \cup {r_hash} ELSE {})

\* the first loop of recover_state from r_hash on: [status, pool].  status "raise":
\* RootBlock.deserialize of an absent block; "hang": the loop came back to a hash with
\* nothing new to cache, and repeats for ever.
RECURSIVE RecoverRootLoop(_, _, _, _, _)
RecoverRootLoop(d, e, pool, r_hash, stale) ==
    IF Cardinality(DOMAIN pool) >= e.max_root_blocks_in_memory
    THEN [status |-> "ok", pool |-> pool]
    ELSE IF r_hash \notin DOMAIN d.rblock THEN [status |-> "raise", pool |-> pool]
    ELSE LET header == RootBlockDeserialize(d.rblock[r_hash]).header
             pool2 == MapPut(pool, r_hash, header)
         IN  IF header.height <= e.genesis_root_height
             THEN [status |-> "ok", pool |-> pool2]
             ELSE IF pool2 = pool /\ r_hash \in stale
             THEN [status |-> "hang", pool |-> pool2]
             ELSE RecoverRootLoop(d, e, pool2, header.hash_prev_block,
                                  IF pool2 = pool THEN stale \cup {r_hash} ELSE {})

RECURSIVE RecoverMinorLoopOneMore(_, _, _, _, _)
RecoverMinorLoopOneMore(d, e, headers, metas, m_hash) ==
    IF Cardinality(DOMAIN headers) > e.max_minor_blocks_in_memory
    THEN [status |-> "ok", headers |-> headers, metas |-> metas]
    ELSE IF m_hash \notin DOMAIN d.mblock
    THEN [status |-> "raise", headers |-> headers, metas |-> metas]
    ELSE LET block == MinorBlockDeserialize(d.mblock[m_hash])
             headers2 == MapPut(headers, m_hash, block.header)
             metas2 == MapPut(metas, m_hash, block.meta)
         IN  IF block.header.height <= 0
             THEN [status |-> "ok", headers |-> headers2, metas |-> metas2]
             ELSE RecoverMinorLoopOneMore(d, e, headers2, metas2,
                                          block.header.hash_prev_minor_block)

RECURSIVE RecoverMinorLoopStopAtGap(_, _, _, _, _)
RecoverMinorLoopStopAtGap(d, e, headers, metas, m_hash) ==
    IF Cardinality(DOMAIN headers) >= e.max_minor_blocks_in_memory
       \/ m_hash \notin DOMAIN d.mblock
    THEN [status |-> "ok", headers |-> headers, metas |-> metas]
    ELSE LET block == MinorBlockDeserialize(d.mblock[m_hash])
             headers2 == MapPut(headers, m_hash, block.header)
             metas2 == MapPut(metas, m_hash, block.meta)
         IN  IF block.header.height <= 0
             THEN [status |-> "ok", headers |-> headers2, metas |-> metas2]
             ELSE RecoverMinorLoopStopAtGap(d, e, headers2, metas2,
                                            block.header.hash_prev_minor_block)

\* the second loop of recover_state from m_hash on: [status, headers, metas]
RECURSIVE RecoverMinorLoop(_, _, _, _, _)
RecoverMinorLoop(d, e, headers, metas, m_hash) ==
    IF Cardinality(DOMAIN headers) >= e.max_minor_blocks_in_memory
    THEN [status |-> "ok", headers |-> headers, metas |-> metas]
    ELSE IF m_hash \notin DOMAIN d.mblock
    THEN [status |-> "raise", headers |-> headers, metas |-> metas]
    ELSE LET block == MinorBlockDeserialize(d.mblock[m_hash])
             headers2 == MapPut(headers, m_hash, block.header)
             metas2 == MapPut(metas, m_hash, block.meta)
         IN  IF block.header.height <= 0
             THEN [status |-> "ok", headers |-> headers2, metas |-> metas2]
             ELSE RecoverMinorLoop(d, e, headers2, metas2,
                                   block.header.hash_prev_minor_block)

\* recover_state(r_header, m_header); the second loop runs when the first one ends.
\* last.ret: how the two loops ended; last.pre: the hashes cached before the call
RecoverState(r_header, m_header) ==
    LET roots == RecoverRootLoop(db, env, r_header_pool, RootHash(r_header), {})
        minors == RecoverMinorLoop(db, env, m_header_pool, m_meta_pool,
                                   MinorHash(m_header))
        ran == roots.status = "ok"
    IN  /\ r_header_pool' = roots.pool
        /\ m_header_pool' = IF ran THEN minors.headers ELSE m_header_pool
        /\ m_meta_pool' = IF ran THEN minors.metas ELSE m_meta_pool
        /\ last' = [op |-> "recover_state",
                    arg |-> <<RootHash(r_header), MinorHash(m_header)>>,
                    ret |-> <<roots.status, IF ran THEN minors.status ELSE "skipped">>,
                    pre |-> [r |-> DOMAIN r_header_pool, m |-> DOMAIN m_header_pool,
                             meta |-> DOMAIN m_meta_pool],
                    rep |-> FALSE]
        /\ scan' = NoScan
        /\ UNCHANGED <<db, env, x_shard_set, height_to_minor_block_hashes, put_log,
                       parent_first>>

-----------------------------------------------------------------------------
(* Transaction lookup, genesis blocks, cross-shard lists, raw access.      *)

\* what every read-only call leaves alone besides the store
ReadFrame ==
    /\ scan' = NoScan
    /\ UNCHANGED <<db, env, m_header_pool, m_meta_pool, x_shard_set, r_header_pool,
                   height_to_minor_block_hashes, put_log, parent_first>>

\* what a call that only writes the store leaves alone
WriteFrame ==
    /\ scan' = NoScan
    /\ UNCHANGED <<env, m_header_pool, m_meta_pool, x_shard_set, r_header_pool,
                   height_to_minor_block_hashes, put_log, parent_first>>

TransactionByHashStrict(d, tx_hash) ==
    LET result == MapGet(d.txindex, tx_hash) IN
    IF IsNone(result) \/ Len(Val(result)) # 8
    THEN [status |-> "assert", ret |-> <<None, None>>]
    ELSE [status |-> "return",
          ret |-> <<GetMinorBlockByHeight(d, FromBytes(SubSeq(Val(result), 1, 4))),
                    Some(FromBytes(SubSeq(Val(result), 5, 8)))>>]

\* get_transaction_by_hash(tx_hash): [status, ret]; "assert" is the failed check(...)
TransactionByHash(d, tx_hash) ==
    LET result == MapGet(d.txindex, tx_hash) IN
    IF IsNone(result) \/ Val(result) = <<>>
    THEN [status |-> "return", ret |-> <<None, None>>]
    ELSE IF Len(Val(result)) # 8
    THEN [status |-> "assert", ret |-> <<None, None>>]
    ELSE [status |-> "return",
          ret |-> <<GetMinorBlockByHeight(d, FromBytes(SubSeq(Val(result), 1, 4))),
                    Some(FromBytes(SubSeq(Val(result), 5, 8)))>>]

GetTransactionByHash(tx_hash) ==
    LET got == TransactionByHash(db, tx_hash) IN
    /\ last' = Last("get_transaction_by_hash", tx_hash, <<got.status, got.ret>>)
    /\ ReadFrame

\* get_minor_block_by_hash(h) and get_minor_block_by_height(height) as calls
CallGetMinorBlockByHash(h) ==
    /\ last' = Last("get_minor_block_by_hash", h, GetMinorBlockByHash(db, h))
    /\ ReadFrame

CallGetMinorBlockByHeight(height) ==
    /\ last' = Last("get_minor_block_by_height", height, GetMinorBlockByHeight(db, height))
    /\ ReadFrame

\* put_genesis_block(root_block_hash, genesis_block)
PutGenesisBlock(root_block_hash, genesis_block) ==
    /\ db' = [db EXCEPT !.genesis =
                  MapPut(@, root_block_hash, MinorBlockSerialize(genesis_block))]
    /\ last' = Last("put_genesis_block", root_block_hash, None)
    /\ WriteFrame

\* get_genesis_block(root_block_hash): what it returns
GenesisBlock(d, root_block_hash) ==
    IF root_block_hash \notin DOMAIN d.genesis THEN None
    ELSE Some(MinorBlockDeserialize(d.genesis[root_block_hash]))

GetGenesisBlock(root_block_hash) ==
    /\ last' = Last("get_genesis_block", root_block_hash, GenesisBlock(db, root_block_hash))
    /\ ReadFrame

\* put_minor_block_xshard_tx_list(h, tx_list)
PutMinorBlockXshardTxList(h, tx_list) ==
    /\ db' = [db EXCEPT !.xShard = MapPut(@, h, XshardListSerialize(tx_list))]
    /\ last' = Last("put_minor_block_xshard_tx_list", h, None)
    /\ WriteFrame

\* get_minor_block_xshard_tx_list(h): what it returns
MinorBlockXshardTxList(d, h) ==
    IF h \notin DOMAIN d.xShard THEN None ELSE Some(XshardListDeserialize(d.xShard[h]))

GetMinorBlockXshardTxList(h) ==
    /\ last' = Last("get_minor_block_xshard_tx_list", h, MinorBlockXshardTxList(db, h))
    /\ ReadFrame

\* contain_remote_minor_block_hash(h)
ContainRemoteMinorBlockHash(d, h) == h \in DOMAIN d.xShard

\* put(key, value) for a key prefix + k of one of the store's maps
Put(prefix, k, value) ==
    /\ db' = [db EXCEPT ![prefix] = MapPut(@, k, value)]
    /\ last' = Last("put", <<prefix, k>>, None)
    /\ WriteFrame

\* get(key, default) for a key prefix + k of one of the store's maps
Get(d, prefix, k, default) == IF k \in DOMAIN d[prefix] THEN d[prefix][k] ELSE default

-----------------------------------------------------------------------------
(* Specifications.  Each one runs the operations a group of properties is  *)
(* about, with arguments drawn from a part of the values above.            *)

Blocks(hashes) == {MinorBlockOf(h) : h \in hashes}

\* put_minor_block in any order, over every minor block of the model
NextCount == \E b \in MinorBlocks : PutMinorBlock(b, <<>>)

SpecCount == InitWith(Env(TRUE, 1, 1, 0)) /\ [][NextCount]_vars

\* the block store with its positional index and the per-block transaction index:
\* a block at height 2 and a child
StoreBlocks == Blocks({13, 16})

NextStore ==
    \/ \E b \in StoreBlocks, xs \in {<<>>, <<D1>>} : PutMinorBlock(b, xs)
    \/ \E b \in StoreBlocks : PutMinorBlockIndex(b)
    \/ \E b \in StoreBlocks : RemoveMinorBlockIndex(b)
    \/ \E b \in StoreBlocks : PutTransactionIndexFromBlock(b)
    \/ \E b \in StoreBlocks : RemoveTransactionIndexFromBlock(b)
    \/ \E b \in StoreBlocks : GetMinorBlockHeaderByHash(MinorHash(b.header))
    \/ \E b \in StoreBlocks : GetMinorBlockMetaByHash(MinorHash(b.header))

SpecStore == InitWith(Env(TRUE, 1, 1, 0)) /\ [][NextStore]_vars

\* a three-way fork at height 3 and the block counter
ForkBlocks == Blocks({14, 16, 17, 15})

NextFork ==
    \/ \E b \in ForkBlocks : PutMinorBlock(b, <<>>)
    \/ \E b \in ForkBlocks : PutMinorBlockIndex(b)
    \/ \E b \in ForkBlocks : RemoveMinorBlockIndex(b)
    \/ \E height \in {3, 4, 5} : GetBlockCountByHeight(height)
    \/ Restart

SpecFork == InitWith(Env(TRUE, 1, 1, 0)) /\ [][NextFork]_vars

\* the transaction index written and removed entry by entry and block by block
TxBlocks == Blocks({12})

NextTx ==
    \/ \E tx \in {T1, T2, T4}, i \in {0, 1} : PutTransactionIndex(tx, 1, i)
    \/ \E tx \in {T1, T2, T4}, i \in {0, 1} : RemoveTransactionIndex(tx, 1, i)
    \/ \E b \in TxBlocks, xs \in {<<>>, <<D0, D1>>} : PutMinorBlock(b, xs)
    \/ \E b \in TxBlocks : PutTransactionIndexFromBlock(b)
    \/ \E b \in TxBlocks : RemoveTransactionIndexFromBlock(b)

SpecTx == InitWith(Env(TRUE, 1, 1, 0)) /\ [][NextTx]_vars

\* the store an earlier instance leaves after put_minor_block of the blocks of `minors`
\* and put_root_block of the blocks of `roots`, in this order
RECURSIVE StoreAfterPuts(_, _, _, _)
StoreAfterPuts(d, e, minors, roots) ==
    IF Len(minors) > 0
    THEN StoreAfterPuts(PutMinorBlockDb(d, e, MinorBlockOf(Head(minors)), <<>>),
                        e, Tail(minors), roots)
    ELSE IF Len(roots) > 0
    THEN StoreAfterPuts(PutRootBlockDb(d, RootBlockOf(Head(roots)), None, None),
                        e, minors, Tail(roots))
    ELSE d

\* a new instance over the store of an earlier one
InitRestarted(e, minors, roots) == InitOver(StoreAfterPuts(EmptyDb, e, minors, roots), e)

\* recovery of the minor chain: the store holds a chain from genesis of some length,
\* with or without forks, or a chain whose older blocks are missing
MinorStores ==
    { <<11>>, <<11, 12>>, <<11, 12, 13>>, <<11, 12, 13, 14>>, <<11, 12, 13, 14, 15>>,
      <<11, 12, 13, 14, 16, 15>>, <<11, 12, 13, 14, 16, 17, 15, 18>>, <<13, 14, 15>> }

InitRecover ==
    \E max_minor \in 1..MaxInMemory, minors \in MinorStores :
        InitRestarted(Env(TRUE, 1, max_minor, 0), minors, <<21>>)

NextRecover ==
    \/ \E h \in {11, 12, 13, 15, 16, 18} :
           RecoverState(RootBlockOf(21).header, MinorBlockOf(h).header)
    \/ \E h \in {11, 12, 13, 16} : GetMinorBlockHeaderByHash(h)
    \/ \E h \in {15} : PutMinorBlock(MinorBlockOf(h), <<>>)
    \/ Restart

SpecRecover == InitRecover /\ [][NextRecover]_vars

\* the root chain: the store holds a chain from genesis, with or without a fork, a chain
\* with a block two heights above its parent, or a chain whose older blocks are missing
RootStores ==
    { <<21>>, <<21, 22>>, <<21, 22, 23>>, <<21, 22, 23, 24>>, <<21, 22, 23, 25, 24>>,
      <<21, 22, 26>>, <<22, 23, 24>> }

InitRoot ==
    \E max_root \in 1..MaxInMemory, genesis_root_height \in {0, 1}, roots \in RootStores :
        InitRestarted(Env(TRUE, max_root, 1, genesis_root_height), <<11>>, roots)

NextRoot ==
    \/ \E h \in {24, 25}, over \in {None, Some(23)} :
           PutRootBlock(RootBlockOf(h), None, over)
    \/ \E h \in {22, 23} : GetRootBlockHeaderByHash(h)
    \/ \E h \in {22} : GetRootBlockByHash(h)
    \/ \E h \in {24, 25, 26}, height \in 0..MaxTarget : GetRootBlockHeaderByHeight(h, height)
    \/ \E h \in {24, 25, 26} :
           RecoverState(RootBlockOf(h).header, MinorBlockOf(11).header)
    \/ Restart

SpecRoot == InitRoot /\ [][NextRoot]_vars

\* paging through address histories: the store holds the blocks 12, 13 and 19 (13 and 19
\* share a height), 12 and 19 with or without confirmed deposits
ScanBlocks == Blocks({12, 19})

ScanStore(e, xs12, xs19) ==
    PutMinorBlockDb(
        PutMinorBlockDb(
            PutMinorBlockDb(EmptyDb, e, MinorBlockOf(12), xs12),
            e, MinorBlockOf(13), <<>>),
        e, MinorBlockOf(19), xs19)

InitScan ==
    \E history \in BOOLEAN, xs12 \in {<<>>, <<D0, D1>>}, xs19 \in {<<>>, <<D1, D2>>} :
        InitOver(ScanStore(Env(history, 1, 1, 0), xs12, xs19), Env(history, 1, 1, 0))

NextScan ==
    \/ \E b \in ScanBlocks \cup Blocks({13}) : PutMinorBlockIndex(b)
    \/ \E b \in ScanBlocks : PutTransactionIndexFromBlock(b)
    \/ \E b \in ScanBlocks : RemoveTransactionIndexFromBlock(b)
    \/ \E address \in {AddrX, AddrY}, limit \in 1..MaxLimit :
           GetTransactionsByAddress(address, limit)
    \/ \E limit \in 1..MaxLimit : GetMoreTransactionsByAddress(limit)

SpecScan == InitScan /\ [][NextScan]_vars

\* the history flag switched off over a store written with the flag on: block 12 with
\* its deposits, block 19, and possibly the index entries of block 12
OffStores ==
    LET on == Env(TRUE, 1, 1, 0)
        stored == ScanStore(on, <<D0, D1>>, <<>>)
    IN  {stored, PutTransactionIndexFromBlockDb(stored, on, MinorBlockOf(12))}

NextOff ==
    \/ \E b \in ScanBlocks, xs \in {<<>>, <<D1, D2>>} : PutMinorBlock(b, xs)
    \/ \E tx \in {T1, T4} : PutTransactionIndex(tx, 1, 0)
    \/ \E tx \in {T1, T4} : RemoveTransactionIndex(tx, 1, 0)
    \/ \E b \in ScanBlocks : PutTransactionIndexFromBlock(b)
    \/ \E b \in ScanBlocks : RemoveTransactionIndexFromBlock(b)
    \/ \E address \in {AddrX, AddrY}, limit \in 0..MaxLimit,
          start \in {<<>>, <<255>>, EncodeAddressTransactionKey(AddrX, 1, 0, FALSE)} :
           CallGetTransactionsByAddress(address, start, limit, TRUE)

SpecOff == (\E d \in OffStores : InitOver(d, Env(FALSE, 1, 1, 0))) /\ [][NextOff]_vars

\* point lookups of present and absent keys while the store fills up
NextLookup ==
    \/ PutRootBlock(RootBlockOf(21), None, None)
    \/ PutGenesisBlock(21, MinorBlockOf(11))
    \/ PutMinorBlock(MinorBlockOf(12), <<>>)
    \/ PutMinorBlockIndex(MinorBlockOf(12))
    \/ PutTransactionIndexFromBlock(MinorBlockOf(12))
    \/ PutMinorBlockXshardTxList(12, <<D1>>)
    \/ Restart
    \/ \E h \in {21, 22} : GetRootBlockByHash(h)
    \/ \E h \in {21, 22} : GetRootBlockHeaderByHash(h)
    \/ \E h \in {12, 13} : CallGetMinorBlockByHash(h)
    \/ \E h \in {12, 13} : GetMinorBlockHeaderByHash(h)
    \/ \E h \in {12, 13} : GetMinorBlockMetaByHash(h)
    \/ \E height \in {1, 2} : CallGetMinorBlockByHeight(height)
    \/ \E tx \in {T1, T3} : GetTransactionByHash(TxHash(tx))
    \/ \E h \in {21, 22} : GetGenesisBlock(h)
    \/ \E h \in {12, 13} : GetMinorBlockXshardTxList(h)

SpecLookup == InitWith(Env(TRUE, 1, 1, 0)) /\ [][NextLookup]_vars

\* location records of every kind under txindex_: empty, short, well-formed, long
LocationRecords ==
    {<<>>, ToBytes(1, 4), ToBytes(1, 4) \o ToBytes(0, 4),
     ToBytes(1, 4) \o ToBytes(0, 4) \o ToBytes(0, 4)}

NextRecord ==
    \/ \E tx \in {T1, T2}, value \in LocationRecords : Put("txindex", TxHash(tx), value)
    \/ PutMinorBlock(MinorBlockOf(12), <<>>)
    \/ PutMinorBlockIndex(MinorBlockOf(12))
    \/ \E tx \in {T1, T2}, i \in {0, 1} : PutTransactionIndex(tx, 1, i)
    \/ \E tx \in {T1, T2} : RemoveTransactionIndex(tx, 1, 0)
    \/ \E tx \in {T1, T2} : GetTransactionByHash(TxHash(tx))

SpecRecord == InitWith(Env(FALSE, 1, 1, 0)) /\ [][NextRecord]_vars

\* recovery over stores whose chains may lack their older blocks, on a new instance or
\* after lookups have filled the caches
InitGap ==
    \E max_root \in 1..MaxInMemory, max_minor \in 1..MaxInMemory,
       genesis_root_height \in {0, 1},
       minors \in {<<11, 12, 13>>, <<12, 13>>}, roots \in {<<21, 22, 23>>, <<22, 23>>} :
        InitRestarted(Env(TRUE, max_root, max_minor, genesis_root_height), minors, roots)

NextGap ==
    \/ \E r \in {23, 24}, m \in {13, 14} :
           RecoverState(RootBlockOf(r).header, MinorBlockOf(m).header)
    \/ \E h \in {12, 13} : GetMinorBlockHeaderByHash(h)
    \/ \E h \in {22, 23} : GetRootBlockHeaderByHash(h)
    \/ Restart

SpecGap == InitGap /\ [][NextGap]_vars

\* history entries of transactions with an in-shard recipient (T1), without a recipient
\* (T2) and with a recipient in another shard (T3), and of deposit lists with and without
\* the coinbase marker
HistoryBlocks == Blocks({12, 13})

NextHistory ==
    \/ \E b \in HistoryBlocks, xs \in {<<>>, <<D0, D1>>, <<D2, D0, D1>>} : PutMinorBlock(b, xs)
    \/ \E tx \in {T1, T2, T3} : PutTransactionIndex(tx, 1, 0)
    \/ \E b \in HistoryBlocks : PutTransactionIndexFromBlock(b)
    \/ \E b \in HistoryBlocks : RemoveTransactionIndexFromBlock(b)

SpecHistory == InitWith(Env(TRUE, 1, 1, 0)) /\ [][NextHistory]_vars

\* every kind of key in the store, then the removal operations among the others
FrameBlocks == Blocks({12, 19})

InitFrame == InitRestarted(Env(TRUE, 1, 1, 0), <<11>>, <<21>>)

NextFrame ==
    \/ \E b \in FrameBlocks : PutMinorBlock(b, <<D0, D1>>)
    \/ \E b \in FrameBlocks : PutMinorBlockIndex(b)
    \/ \E b \in FrameBlocks : RemoveMinorBlockIndex(b)
    \/ \E b \in FrameBlocks : PutTransactionIndexFromBlock(b)
    \/ \E b \in FrameBlocks : RemoveTransactionIndexFromBlock(b)
    \/ RemoveTransactionIndex(T1, 1, 0)
    \/ PutGenesisBlock(21, MinorBlockOf(11))
    \/ PutMinorBlockXshardTxList(12, <<D1>>)
    \/ PutRootBlock(RootBlockOf(22), Some(MinorBlockOf(12).header), None)
    \/ GetMinorBlockMetaByHash(12)

SpecFrame == InitFrame /\ [][NextFrame]_vars

\* caches filled by puts, lookups and recovery, and emptied by a restart
NextCache ==
    \/ \E over \in {None, Some(22)}, m \in {None, Some(MinorBlockOf(13).header)} :
           PutRootBlock(RootBlockOf(23), m, over)
    \/ PutMinorBlock(MinorBlockOf(13), <<>>)
    \/ \E h \in {22, 23} : GetLastConfirmedMinorBlockHeaderAtRootBlock(h)
    \/ \E h \in {12, 14} : GetMinorBlockEvmRootHashByHash(h)
    \/ \E h \in {21, 22, 23, 24} : GetRootBlockHeaderByHash(h)
    \/ GetRootBlockByHash(22)
    \/ GetMinorBlockHeaderByHash(12)
    \/ \E r \in {22, 23}, m \in {12, 13} :
           RecoverState(RootBlockOf(r).header, MinorBlockOf(m).header)
    \/ Restart

SpecCache ==
    /\ \E max \in 1..MaxInMemory :
           InitRestarted(Env(TRUE, max, max, 0), <<11, 12>>, <<21, 22>>)
    /\ [][NextCache]_vars

\* fork switches: 14 and 16 compete at height 3, 12 and 16 both hold T1
SwitchBlocks == Blocks({12, 14, 16})

NextSwitch ==
    \/ \E b \in SwitchBlocks : PutMinorBlock(b, <<>>)
    \/ \E b \in SwitchBlocks : PutMinorBlockIndex(b)
    \/ \E b \in SwitchBlocks : RemoveMinorBlockIndex(b)
    \/ \E b \in SwitchBlocks : PutTransactionIndexFromBlock(b)
    \/ \E b \in SwitchBlocks : RemoveTransactionIndexFromBlock(b)
    \/ \E tx \in {T1, T2} : GetTransactionByHash(TxHash(tx))

SpecSwitch == InitWith(Env(FALSE, 1, 1, 0)) /\ [][NextSwitch]_vars

-----------------------------------------------------------------------------
(* Properties.                                                             *)

\* the cumulative-count rule over every stored minor block
TxCountRule(d) ==
    \A h \in DOMAIN d.mblock :
        LET B == MinorBlockDeserialize(d.mblock[h]) IN
        IF B.header.height > 2
        THEN GetTotalTxCount(d, h) =
                 GetTotalTxCount(d, B.header.hash_prev_minor_block) + Len(B.tx_list)
        ELSE GetTotalTxCount(d, h) = Len(B.tx_list)

\* C1 as stated: after any sequence of put_minor_block calls every stored block B has
\* count(B) = count(parent(B)) + len(B.tx_list) if height(B) > 2, else len(B.tx_list).
C1_AnyOrder == TxCountRule(db)

\* C1 amended: the rule holds in every state reached by put_minor_block calls that stored
\* each block of height > 2 only when its parent was already stored.
C1_ParentFirst == parent_first => TxCountRule(db)

\* the chain 13 <- 14 <- 15 stored parents first: counts 1, 2 and 4
C1_Witness ==
    /\ parent_first
    /\ {13, 14, 15} \subseteq DOMAIN db.mblock
    /\ GetTotalTxCount(db, 14) = 2
    /\ GetTotalTxCount(db, 15) = 4

\* the three lookups by hash return the block, its header and its meta
RoundTrip(d, h) ==
    /\ GetMinorBlockByHash(d, h) = Some(MinorBlockOf(h))
    /\ MinorBlockHeaderByHash(d, h) = Some(MinorBlockOf(h).header)
    /\ MinorBlockMetaByHash(d, h) = Some(MinorBlockOf(h).meta)

\* C2: once put_minor_block(B, xs) has run, get_minor_block_by_hash(hash(B)) returns B,
\* get_minor_block_header_by_hash returns B.header and get_minor_block_meta_by_hash
\* returns B.meta, also after any later put, index and index-removal operation.
C2_RoundTrip ==
    /\ \A h \in put_log : RoundTrip(db, h)
    /\ (last.op = "get_minor_block_header_by_hash" /\ last.arg \in put_log)
           => last.ret = Some(MinorBlockOf(last.arg).header)
    /\ (last.op = "get_minor_block_meta_by_hash" /\ last.arg \in put_log)
           => last.ret = Some(MinorBlockOf(last.arg).meta)

\* block 16 was put with a deposit list, indexed, is not in the positional index (any
\* more), and its header has just been read back
C2_Witness ==
    /\ last.op = "get_minor_block_header_by_hash"
    /\ last.arg = 16
    /\ put_log = {13, 16}
    /\ 3 \notin DOMAIN db.mi
    /\ TxHash(T1) \in DOMAIN db.txindex
    /\ GetConfirmedCrossShardTransactionDepositList(db, 16) = <<D1>>

\* the "addr_" keys put_transaction_index(tx, h, i) writes under the configuration e
HistoryKeysOf(e, tx, block_height, index) ==
    IF e.ENABLE_TRANSACTION_HISTORY
    THEN TransactionHistoryKeys(tx, block_height, index)
    ELSE {}

\* remove_transaction_index(tx, h, i) has just run right after put_transaction_index(tx, h, i)
RemovedAfterPut == last.op = "remove_transaction_index" /\ last.rep

\* C3 as stated: remove_transaction_index(tx, h, i) after put_transaction_index(tx, h, i)
\* makes contain_transaction_hash(hash(tx)) false, removes every addr_ entry of the put,
\* and leaves the store's index keys the same as before the put.
C3_SameAsBeforePut ==
    RemovedAfterPut =>
        /\ ~ContainTransactionHash(db, TxHash(last.arg[1]))
        /\ HistoryKeysOf(env, last.arg[1], last.arg[2], last.arg[3]) \cap db.addr = {}
        /\ DOMAIN db.txindex = DOMAIN last.pre.txindex
        /\ db.addr = last.pre.addr

\* C3 amended: remove after put makes contain_transaction_hash(hash(tx)) false and removes
\* every addr_ entry the put wrote; the index keys are those before the put without the
\* keys the put wrote (so the same as before exactly when none of them was present).
C3_RemoveUndoesPut ==
    RemovedAfterPut =>
        LET keys == HistoryKeysOf(env, last.arg[1], last.arg[2], last.arg[3]) IN
        /\ ~ContainTransactionHash(db, TxHash(last.arg[1]))
        /\ keys \cap db.addr = {}
        /\ DOMAIN db.txindex = (DOMAIN last.pre.txindex) \ {TxHash(last.arg[1])}
        /\ db.addr = last.pre.addr \ keys

\* T1 (sender and in-shard recipient: two entries) put and removed while other
\* entries are indexed
C3_Witness ==
    /\ RemovedAfterPut
    /\ last.arg[1] = T1
    /\ db.addr # {}
    /\ db.addr = last.pre.addr
    /\ DOMAIN db.txindex = DOMAIN last.pre.txindex

\* C4: put_transaction_index(tx, h, i) called a second time, and likewise
\* put_transaction_index_from_block(B) called a second time, leaves the store as the
\* first call left it.
C4_Idempotent ==
    (last.op \in {"put_transaction_index", "put_transaction_index_from_block"} /\ last.rep)
        => db = last.pre

\* block 12 with a confirmed deposit indexed twice in a row
C4_Witness ==
    /\ last.op = "put_transaction_index_from_block"
    /\ last.rep
    /\ EncodeAddressTransactionKey(AddrX, 1, 1, TRUE) \in db.addr
    /\ TxHash(T2) \in DOMAIN db.txindex

\* the blocks of a height passed to put_minor_block on this instance
PutAtHeight(height) == {h \in put_log : MinorBlockOf(h).header.height = height}

CountMatchesPuts ==
    /\ \A height \in 0..5 :
           BlockCountByHeight(height_to_minor_block_hashes, height)
               = Cardinality(PutAtHeight(height))
    /\ last.op = "get_block_count_by_height"
           => last.ret = Cardinality(PutAtHeight(last.arg))

\* C10: on one operator instance get_block_count_by_height(h) is the number of distinct
\* minor blocks passed to put_minor_block with height h; no call lowers it, and
\* put_minor_block_index and remove_minor_block_index leave it unchanged.
C10_BlockCount ==
    [][ /\ CountMatchesPuts'
        /\ last'.op # "init" =>
               \A height \in 0..5 :
                   BlockCountByHeight(height_to_minor_block_hashes', height)
                       >= BlockCountByHeight(height_to_minor_block_hashes, height)
        /\ last'.op \in {"put_minor_block_index", "remove_minor_block_index"} =>
               \A height \in 0..5 :
                   BlockCountByHeight(height_to_minor_block_hashes', height)
                       = BlockCountByHeight(height_to_minor_block_hashes, height)
      ]_vars

\* a three-way fork at height 3, one of the three just removed from the positional index
C10_Witness ==
    /\ last.op = "remove_minor_block_index"
    /\ {14, 16, 17} \subseteq put_log
    /\ 3 \notin DOMAIN db.mi
    /\ BlockCountByHeight(height_to_minor_block_hashes, 3) = 3

\* the store holds the minor block of hash h and all its ancestors down to height 0,
\* each one height below its child
RECURSIVE MinorChainStored(_, _)
MinorChainStored(d, h) ==
    /\ h \in DOMAIN d.mblock
    /\ LET header == MinorBlockOf(h).header IN
       \/ header.height = 0
       \/ /\ header.height > 0
          /\ header.hash_prev_minor_block \in DOMAIN d.mblock
          /\ MinorBlockOf(header.hash_prev_minor_block).header.height = header.height - 1
          /\ MinorChainStored(d, header.hash_prev_minor_block)

\* the n most recent blocks on the ancestor path of the minor block of hash h
RECURSIVE MostRecentMinor(_, _)
MostRecentMinor(h, n) ==
    IF n = 0 THEN {}
    ELSE {h} \cup (IF MinorBlockOf(h).header.height = 0 THEN {}
                   ELSE MostRecentMinor(MinorBlockOf(h).header.hash_prev_minor_block, n - 1))

Min(a, b) == IF a < b THEN a ELSE b

\* recover_state has just returned on an instance whose caches were empty
RecoveredFresh ==
    /\ last.op = "recover_state"
    /\ last.pre.r = {} /\ last.pre.m = {} /\ last.pre.meta = {}

\* C7: on a fresh operator over a store holding the minor chain of heights 0..N up to the
\* head, recover_state leaves in m_header_pool and m_meta_pool exactly the
\* min(max_minor_blocks_in_memory, N+1) most recent blocks of the head's ancestor path
\* (no fork block); get_minor_block_header_by_hash of any stored block, cached or not,
\* returns its header.
C7_RecoverMinor ==
    /\ (RecoveredFresh /\ last.ret[1] = "ok" /\ MinorChainStored(db, last.arg[2])) =>
           LET head == last.arg[2]
               window == MostRecentMinor(head, env.max_minor_blocks_in_memory)
           IN  /\ last.ret[2] = "ok"
               /\ DOMAIN m_header_pool = window
               /\ DOMAIN m_meta_pool = window
               /\ Cardinality(window) = Min(env.max_minor_blocks_in_memory,
                                            MinorBlockOf(head).header.height + 1)
               /\ \A h \in window : /\ m_header_pool[h] = MinorBlockOf(h).header
                                    /\ m_meta_pool[h] = MinorBlockOf(h).meta
    /\ \A h \in DOMAIN db.mblock :
           MinorBlockHeaderByHash(db, h) = Some(MinorBlockOf(h).header)
    /\ (last.op = "get_minor_block_header_by_hash" /\ last.arg \in DOMAIN db.mblock)
           => last.ret = Some(MinorBlockOf(last.arg).header)

\* the chain 11..15 with forks 16, 17, 18 stored and three blocks allowed in memory:
\* recovery from head 12 (height 1) ends at the genesis block with room left and caches
\* 12 and 11 only, N + 1 = 2 of them
C7_Witness ==
    /\ RecoveredFresh
    /\ last.arg[2] = 12
    /\ last.ret = <<"ok", "ok">>
    /\ MinorChainStored(db, 12)
    /\ {15, 16, 17, 18} \subseteq DOMAIN db.mblock
    /\ env.max_minor_blocks_in_memory = 3
    /\ DOMAIN m_header_pool = {11, 12}
    /\ DOMAIN m_meta_pool = {11, 12}

\* the hashes the first loop of recover_state visits from h on, at most n of them: it
\* follows hash_prev_block of the stored blocks and ends at a header at or below the
\* genesis root height, or at a hash that is not stored
RECURSIVE RootWindow(_, _, _, _)
RootWindow(d, e, h, n) ==
    IF n = 0 \/ h \notin DOMAIN d.rblock THEN {}
    ELSE LET header == RootBlockDeserialize(d.rblock[h]).header IN
         {h} \cup (IF header.height <= e.genesis_root_height THEN {}
                   ELSE RootWindow(d, e, header.hash_prev_block, n - 1))

\* the hashes reached from h by one or more hash_prev_block steps through the store,
\* at most n steps
RECURSIVE RootAncestors(_, _, _)
RootAncestors(d, h, n) ==
    IF n = 0 \/ h \notin DOMAIN d.rblock THEN {}
    ELSE LET prev == RootBlockDeserialize(d.rblock[h]).header.hash_prev_block IN
         {prev} \cup RootAncestors(d, prev, n - 1)

\* C8: on a fresh operator recover_state caches the root headers met by following
\* hash_prev_block from the root head, and stops once max_root_blocks_in_memory are cached
\* or a header at or below the genesis root height has been cached: afterwards
\* len(r_header_pool) <= max_root_blocks_in_memory and no ancestor of a cached header at
\* or below the genesis root height is cached.
C8_RecoverRoot ==
    (RecoveredFresh /\ last.ret[1] \in {"ok", "raise"}) =>
        /\ Cardinality(DOMAIN r_header_pool) <= env.max_root_blocks_in_memory
        /\ DOMAIN r_header_pool =
               RootWindow(db, env, last.arg[1], env.max_root_blocks_in_memory)
        /\ \A h \in DOMAIN r_header_pool :
               /\ r_header_pool[h] = RootBlockDeserialize(db.rblock[h]).header
               /\ r_header_pool[h].height <= env.genesis_root_height =>
                      RootAncestors(db, h, Len(RootBlockList)) \cap DOMAIN r_header_pool = {}
        /\ last.ret[1] = "ok" =>
               \/ Cardinality(DOMAIN r_header_pool) = env.max_root_blocks_in_memory
               \/ \E h \in DOMAIN r_header_pool :
                      r_header_pool[h].height <= env.genesis_root_height

\* genesis root height 1, blocks 21..25 stored, three headers allowed in memory: recovery
\* from 25 (height 2) stops at 22 (height 1) with room left and does not cache 21
C8_Witness ==
    /\ RecoveredFresh
    /\ last.ret[1] = "ok"
    /\ last.arg[1] = 25
    /\ env.genesis_root_height = 1
    /\ env.max_root_blocks_in_memory = 3
    /\ DOMAIN r_header_pool = {22, 25}
    /\ 21 \in DOMAIN db.rblock

\* the store holds under h the root block of hash h and all its ancestors down to
\* height 0, each one height below its child
RECURSIVE RootChainStored(_, _)
RootChainStored(d, h) ==
    /\ h \in DOMAIN d.rblock
    /\ d.rblock[h] = RootBlockSerialize(RootBlockOf(h))
    /\ LET header == RootBlockOf(h).header IN
       \/ header.height = 0
       \/ /\ header.height > 0
          /\ header.hash_prev_block \in DOMAIN d.rblock
          /\ RootBlockOf(header.hash_prev_block).header.height = header.height - 1
          /\ RootChainStored(d, header.hash_prev_block)

\* the header of the given height on the ancestor path of the root block of hash h
RECURSIVE RootAncestorAt(_, _)
RootAncestorAt(h, height) ==
    IF RootBlockOf(h).header.height = height THEN RootBlockOf(h).header
    ELSE RootAncestorAt(RootBlockOf(h).header.hash_prev_block, height)

\* C9: over a stored root chain of heights 0..N with head hash H,
\* get_root_block_header_by_height(H, t) returns for every t >= 0: None when t > N, and
\* otherwise the header of height t on H's ancestor path, whatever the cache holds.
C9_HeaderByHeight ==
    (last.op = "get_root_block_header_by_height" /\ RootChainStored(db, last.arg[1])) =>
        LET H == last.arg[1]
            t == last.arg[2]
        IN  last.ret = <<"return",
                         IF t > RootBlockOf(H).header.height THEN None
                         ELSE Some(RootAncestorAt(H, t))>>

\* head 24, target height 1: the intermediate header 23 was cached, 22 was not
C9_Witness ==
    /\ last.op = "get_root_block_header_by_height"
    /\ RootChainStored(db, 24)
    /\ last.arg = <<24, 1>>
    /\ last.pre = {23}
    /\ last.ret = <<"return", Some(RootBlockOf(22).header)>>

\* the history entries of an address: the "addr_" keys that start with its serialization
Entries(d, address) ==
    {k \in d.addr : /\ Len(k) >= 5 + 24
                    /\ SubSeq(k, 1, 5 + 24) = AddrPrefix \o AddressSerialize(address)}

\* entry a comes before entry b: greater height first, then the flag byte ascending or
\* descending, then the greater index first
EntryBefore(a, b, flag_ascending) ==
    \/ KeyHeight(a) > KeyHeight(b)
    \/ /\ KeyHeight(a) = KeyHeight(b)
       /\ \/ IF flag_ascending THEN a[5 + 24 + 4 + 1] < b[5 + 24 + 4 + 1]
                               ELSE a[5 + 24 + 4 + 1] > b[5 + 24 + 4 + 1]
          \/ /\ a[5 + 24 + 4 + 1] = b[5 + 24 + 4 + 1]
             /\ KeyIndex(a) > KeyIndex(b)

\* get_transactions_by_address was called with no cursor, the history flag on, and returned
FirstPageReturned ==
    /\ last.op = "get_transactions_by_address"
    /\ env.ENABLE_TRANSACTION_HISTORY
    /\ last.arg[2] = <<>>
    /\ last.ret[1] = "return"

\* the rows of the returned page are the min(limit, number of entries) first entries of
\* the address in the given order, one row per entry, each of its entry's height
NewestInOrder(flag_ascending) ==
    LET entries == Entries(db, last.arg[1])
        limit == last.arg[3]
        rows == last.ret[2]
        keys == last.ret[4]
    IN  /\ Len(rows) <= limit
        /\ Len(rows) = Min(limit, Cardinality(entries))
        /\ Len(keys) = Len(rows)
        /\ \A i \in 1..Len(keys) :
               /\ keys[i] \in entries
               /\ rows[i].block_height = KeyHeight(keys[i])
               /\ \A j \in 1..Len(keys) : i < j => EntryBefore(keys[i], keys[j], flag_ascending)
               /\ \A e \in entries :
                      (\A j \in 1..Len(keys) : keys[j] # e)
                          => EntryBefore(keys[i], e, flag_ascending)

\* C5 as stated: the first page holds at most limit rows, the newest entries of the address
\* by height descending, then flag byte (0x00 cross-shard, 0x01 local) ascending, then
\* index descending.
C5_FlagAscending == FirstPageReturned => NewestInOrder(TRUE)

\* C5: whenever get_transactions_by_address(A, no cursor, limit) returns with the history
\* flag on, it returns min(limit, number of entries of A) rows, the newest entries of A by
\* height descending, then flag byte descending (local 0x01 before cross-shard 0x00 within
\* a height), then index descending.
C5_FlagDescending == FirstPageReturned => NewestInOrder(FALSE)

\* a first page of two rows for an address with more entries, one height holding both a
\* local and a cross-shard entry
C5_Witness ==
    /\ FirstPageReturned
    /\ last.arg[3] = 2
    /\ Len(last.ret[2]) = 2
    /\ \E a, b \in Entries(db, last.arg[1]) :
           /\ KeyHeight(a) = KeyHeight(b)
           /\ KeyCrossShard(a) /\ ~KeyCrossShard(b)
    /\ \E a, b \in Entries(db, last.arg[1]) : KeyHeight(a) # KeyHeight(b)

\* C6: while a caller pages through the history of an address with the cursors the calls
\* return, the rows received so far are the greatest entries of the address in strictly
\* descending key order (each call resumes right below the last row: nothing skipped,
\* nothing repeated); an empty page comes only when every entry has been received, and the
\* call made with the cursor returned alongside the final row returns an empty page.
C6_Pagination ==
    (scan.state = "paging" /\ ~scan.raised) =>
        LET entries == Entries(db, scan.address)
            received == {scan.keys[i] : i \in 1..Len(scan.keys)}
        IN  /\ Len(scan.rows) = Len(scan.keys)
            /\ scan.keys = scan.before \o scan.page
            /\ received \subseteq entries
            /\ \A i, j \in 1..Len(scan.keys) :
                   i < j => BytesLess(scan.keys[j], scan.keys[i])
            /\ \A k \in received : \A e \in entries \ received : BytesLess(e, k)
            /\ scan.page = <<>> => received = entries
            /\ (scan.before # <<>> /\ Cardinality(entries) = Len(scan.before))
                   => scan.page = <<>>

\* four or more entries received over several calls, the last call made with the cursor
\* that came with the final row and answered by an empty page
C6_Witness ==
    /\ scan.state = "paging" /\ ~scan.raised
    /\ Len(scan.keys) >= 4
    /\ Cardinality(Entries(db, scan.address)) = Len(scan.keys)
    /\ scan.before = scan.keys
    /\ scan.page = <<>>
    /\ Entries(db, AddrY) # {}

\* C11: with ENABLE_TRANSACTION_HISTORY off no call writes an xr_ key or creates or
\* deletes an addr_ key, the transaction index operations change nothing but txindex_
\* entries, and get_transactions_by_address returns an empty page with an empty cursor
\* for any address, cursor and limit.
C11_HistoryOff ==
    [][ ~env.ENABLE_TRANSACTION_HISTORY =>
            /\ db'.xr = db.xr
            /\ db'.addr = db.addr
            /\ last'.op \in {"put_transaction_index", "remove_transaction_index",
                             "put_transaction_index_from_block",
                             "remove_transaction_index_from_block"}
                   => [db' EXCEPT !.txindex = db.txindex] = db
            /\ last'.op = "get_transactions_by_address"
                   => /\ last'.ret[1] = "return"
                      /\ last'.ret[2] = <<>>
                      /\ last'.ret[3] = <<>>
      ]_vars

\* the flag is off, block 12's transactions were just un-indexed, and the addr_ entries and
\* the deposit list written while the flag was on are still in the store
C11_Witness ==
    /\ ~env.ENABLE_TRANSACTION_HISTORY
    /\ last.op = "remove_transaction_index_from_block"
    /\ last.arg = 12
    /\ TxHash(T1) \notin DOMAIN db.txindex
    /\ EncodeAddressTransactionKey(AddrX, 1, 0, FALSE) \in db.addr
    /\ EncodeAddressTransactionKey(AddrX, 1, 1, TRUE) \in db.addr
    /\ GetConfirmedCrossShardTransactionDepositList(db, 12) = <<D0, D1>>

\* the lookup just made (last') asked for a key that the store (db) does not hold
AbsentLookup(op, keys) == last'.op = op /\ last'.arg \notin keys

\* C12: in every reachable state each of the nine point lookups, asked for a key that is
\* absent from the store, returns none (get_transaction_by_hash: (none, none)) without
\* raising and leaves the store unchanged.
C12_NotFound ==
    [][ /\ (\/ AbsentLookup("get_root_block_by_hash", DOMAIN db.rblock)
            \/ AbsentLookup("get_root_block_header_by_hash", DOMAIN db.rblock)
            \/ AbsentLookup("get_minor_block_by_hash", DOMAIN db.mblock)
            \/ AbsentLookup("get_minor_block_header_by_hash", DOMAIN db.mblock)
            \/ AbsentLookup("get_minor_block_meta_by_hash", DOMAIN db.mblock)
            \/ AbsentLookup("get_minor_block_by_height", DOMAIN db.mi)
            \/ AbsentLookup("get_genesis_block", DOMAIN db.genesis)
            \/ AbsentLookup("get_minor_block_xshard_tx_list", DOMAIN db.xShard))
               => (last'.ret = None /\ db' = db)
        /\ AbsentLookup("get_transaction_by_hash", DOMAIN db.txindex)
               => (last'.ret = <<"return", <<None, None>>>> /\ db' = db)
      ]_vars

\* a transaction that is not indexed was looked up while another one is, in a store that
\* holds blocks, an index entry and a cross-shard list
C12_Witness ==
    /\ last.op = "get_transaction_by_hash"
    /\ last.arg = TxHash(T3)
    /\ last.ret = <<"return", <<None, None>>>>
    /\ TxHash(T1) \in DOMAIN db.txindex
    /\ 12 \in DOMAIN db.mblock /\ 21 \in DOMAIN db.rblock /\ 12 \in DOMAIN db.xShard

\* C13 as stated: get_transaction_by_hash(h) fails with an assertion whenever the value
\* stored under txindex_ + h has a length other than 8 bytes, the empty record included.
C13_AnyOtherLength ==
    (/\ last.op = "get_transaction_by_hash"
     /\ last.arg \in DOMAIN db.txindex
     /\ Len(db.txindex[last.arg]) # 8)
        => last.ret[1] = "assert"

\* what the code does: the assertion fails for the records of a length other than 0 and
\* 8; an empty record is answered like an absent key
C13_NonEmptyOtherLength ==
    (last.op = "get_transaction_by_hash" /\ last.arg \in DOMAIN db.txindex) =>
        LET n == Len(db.txindex[last.arg]) IN
        /\ n \notin {0, 8} => last.ret[1] = "assert"
        /\ n = 0 => last.ret = <<"return", <<None, None>>>>
        /\ n = 8 => last.ret[1] = "return"

\* following hash_prev_block from h through the store for at most n blocks, a block is
\* absent before a header at or below the genesis root height is met
RECURSIVE RootGap(_, _, _, _)
RootGap(d, e, h, n) ==
    IF n = 0 THEN FALSE
    ELSE IF h \notin DOMAIN d.rblock THEN TRUE
    ELSE LET header == RootBlockDeserialize(d.rblock[h]).header IN
         IF header.height <= e.genesis_root_height THEN FALSE
         ELSE RootGap(d, e, header.hash_prev_block, n - 1)

\* following hash_prev_minor_block from h through the store for at most n blocks, a block
\* is absent before a header of height <= 0 is met
RECURSIVE MinorGap(_, _, _)
MinorGap(d, h, n) ==
    IF n = 0 THEN FALSE
    ELSE IF h \notin DOMAIN d.mblock THEN TRUE
    ELSE LET header == MinorBlockDeserialize(d.mblock[h]).header IN
         IF header.height <= 0 THEN FALSE
         ELSE MinorGap(d, header.hash_prev_minor_block, n - 1)

\* C14: when the walk of recover_state from a head meets an absent block before the cache
\* limit, the genesis root height or minor height <= 0 stops it, recover_state fails: it
\* does not return normally with a truncated window.
C14_GapIsFatal ==
    last.op = "recover_state" =>
        /\ (/\ RootGap(db, env, last.arg[1], Len(RootBlockList))
            /\ Cardinality(DOMAIN r_header_pool) < env.max_root_blocks_in_memory)
               => last.ret[1] = "raise"
        /\ (/\ last.ret[1] = "ok"
            /\ MinorGap(db, last.arg[2], Len(MinorBlockList))
            /\ Cardinality(DOMAIN m_header_pool) < env.max_minor_blocks_in_memory)
               => last.ret[2] = "raise"
        /\ last.ret = <<"ok", "ok">> =>
               /\ \/ Cardinality(DOMAIN r_header_pool) >= env.max_root_blocks_in_memory
                  \/ ~RootGap(db, env, last.arg[1], Len(RootBlockList))
               /\ \/ Cardinality(DOMAIN m_header_pool) >= env.max_minor_blocks_in_memory
                  \/ ~MinorGap(db, last.arg[2], Len(MinorBlockList))

\* the root walk ended at the genesis root height; the minor walk from 13 cached 13 and
\* 12, found 11 absent with room left in the cache, and failed
C14_Witness ==
    /\ last.op = "recover_state"
    /\ last.arg[2] = 13
    /\ last.ret = <<"ok", "raise">>
    /\ DOMAIN db.mblock = {12, 13}
    /\ DOMAIN m_header_pool = {12, 13}
    /\ env.max_minor_blocks_in_memory = 3

\* C15 as stated: after any put_root_block (with any arguments) and put_minor_block calls
\* every key rblock_ + h or mblock_ + h holds a block whose header hash is h, and every
\* entry h of r_header_pool / m_header_pool holds a header whose hash is h.
C15_ContentHashKeys ==
    /\ \A h \in DOMAIN db.rblock : RootHash(RootBlockDeserialize(db.rblock[h]).header) = h
    /\ \A h \in DOMAIN db.mblock : MinorHash(MinorBlockDeserialize(db.mblock[h]).header) = h
    /\ \A h \in DOMAIN r_header_pool : RootHash(r_header_pool[h]) = h
    /\ \A h \in DOMAIN m_header_pool : MinorHash(m_header_pool[h]) = h

\* the entries of a transaction at (height, index): one for the sender, one for the
\* recipient when there is one and its shard key lies in this shard's branch
TransactionEntries(tx, height, index) ==
    {EncodeAddressTransactionKey(Address(tx.sender, tx.from_full_shard_key),
                                 height, index, FALSE)}
    \cup {EncodeAddressTransactionKey(Address(tx.to, tx.to_full_shard_key),
                                      height, index, FALSE) :
              x \in {y \in {1} : tx.to # 0 /\ IsInBranch(tx.to_full_shard_key)}}

\* the entries of the confirmed deposits of a block: one for each deposit whose tx_hash is
\* not all-zero, at the deposit's position in the list
DepositEntries(xs, height) ==
    {EncodeAddressTransactionKey(xs[j].to_address, height, j - 1, TRUE) :
         j \in {i \in 1..Len(xs) : xs[i].tx_hash # 0}}

\* C16: with the history flag on, put_transaction_index(tx, h, i) adds to the addr_ keys
\* exactly the sender's entry and, when tx has a recipient in this shard's branch, the
\* recipient's; put_transaction_index_from_block(B) adds exactly these entries for the
\* transactions of B and a cross-shard entry for each confirmed deposit of B whose
\* tx_hash is not all-zero.
C16_EntriesWritten ==
    /\ (last.op = "put_transaction_index" /\ env.ENABLE_TRANSACTION_HISTORY) =>
           db.addr = last.pre.addr
                         \cup TransactionEntries(last.arg[1], last.arg[2], last.arg[3])
    /\ (last.op = "put_transaction_index_from_block" /\ env.ENABLE_TRANSACTION_HISTORY) =>
           LET B == MinorBlockOf(last.arg)
               xs == GetConfirmedCrossShardTransactionDepositList(db, last.arg)
           IN  db.addr = last.pre.addr
                   \cup UNION {TransactionEntries(B.tx_list[i], B.header.height, i - 1) :
                                   i \in 1..Len(B.tx_list)}
                   \cup DepositEntries(xs, B.header.height)

\* block 12 (T1 with an in-shard recipient, T2 without recipient) indexed with the
\* deposits <<D2, D0, D1>>: entries for X twice, Z, the deposits at positions 0 and 2, and
\* none for the coinbase marker at position 1
C16_Witness ==
    /\ last.op = "put_transaction_index_from_block"
    /\ last.arg = 12
    /\ last.pre.addr = {}
    /\ GetConfirmedCrossShardTransactionDepositList(db, 12) = <<D2, D0, D1>>
    /\ db.addr = {EncodeAddressTransactionKey(AddrX, 1, 0, FALSE),
                  EncodeAddressTransactionKey(AddrZ, 1, 0, FALSE),
                  EncodeAddressTransactionKey(AddrX, 1, 1, FALSE),
                  EncodeAddressTransactionKey(AddrY, 1, 0, TRUE),
                  EncodeAddressTransactionKey(AddrX, 1, 2, TRUE)}

\* the map g holds nothing that the map f does not hold
OnlyDeleted(f, g) == \A k \in DOMAIN g : k \in DOMAIN f /\ g[k] = f[k]

\* C17: remove_minor_block_index, remove_transaction_index and
\* remove_transaction_index_from_block only delete mi_, txindex_ and addr_ keys: every
\* rblock_, mblock_, genesis_, tx_count_, xr_, xShard_ and r_last_m key and every cache
\* entry stays as it was; and no call at all deletes a stored block.
C17_PayloadsKept ==
    [][ /\ last'.op \in {"remove_minor_block_index", "remove_transaction_index",
                         "remove_transaction_index_from_block"} =>
               /\ \A f \in {"rblock", "mblock", "genesis", "tx_count", "xr", "xShard",
                            "r_last_m"} : db'[f] = db[f]
               /\ OnlyDeleted(db.mi, db'.mi)
               /\ OnlyDeleted(db.txindex, db'.txindex)
               /\ db'.addr \subseteq db.addr
               /\ UNCHANGED <<m_header_pool, m_meta_pool, r_header_pool, x_shard_set,
                              height_to_minor_block_hashes>>
        /\ \A f \in {"rblock", "mblock", "genesis"} : DOMAIN db[f] \subseteq DOMAIN db'[f]
      ]_vars

\* blocks 12 and 19 were indexed and 12 was then un-indexed: T1 and the entries of height
\* 1 are gone, while the block, its count, its deposit list, the root block, the genesis
\* block, the cross-shard list and the cached meta are all still there
C17_Witness ==
    /\ last.op = "remove_transaction_index_from_block"
    /\ last.arg = 12
    /\ TxHash(T4) \in DOMAIN db.txindex /\ TxHash(T1) \notin DOMAIN db.txindex
    /\ EncodeAddressTransactionKey(AddrX, 2, 0, FALSE) \in db.addr
    /\ EncodeAddressTransactionKey(AddrX, 1, 0, FALSE) \notin db.addr
    /\ 12 \in DOMAIN db.mblock /\ 12 \in DOMAIN db.tx_count
    /\ GetConfirmedCrossShardTransactionDepositList(db, 12) = <<D0, D1>>
    /\ 22 \in DOMAIN db.rblock /\ 22 \in DOMAIN db.r_last_m
    /\ 21 \in DOMAIN db.genesis /\ 12 \in DOMAIN db.xShard
    /\ 12 \in DOMAIN m_meta_pool

\* C18 as stated: after a restart and recover_state, get_block_count_by_height(h) for a
\* height h of the recovered window counts the minor blocks stored at h: at least the
\* recovered block itself.
C18_CountAfterRecovery ==
    (last.op = "recover_state" /\ last.ret = <<"ok", "ok">>) =>
        \A h \in DOMAIN m_header_pool :
            BlockCountByHeight(height_to_minor_block_hashes, m_header_pool[h].height) >= 1

\* C19: after any put_root_block, put_minor_block, lookup and recover_state calls,
\* get_root_block_header_by_hash(h), contain_root_block_by_hash(h) and
\* contain_minor_block_by_hash(h) answer as an operator with empty caches over the same
\* store would; and a get_root_block_header_by_hash that misses the cache and finds the
\* block in the store leaves its header in r_header_pool.
C19_CachesTransparent ==
    /\ \A h \in 20..(20 + Len(RootBlockList) + 1) :
           /\ RootBlockHeaderByHash(db, r_header_pool, h).ret
                  = RootBlockHeaderByHash(db, EmptyMap, h).ret
           /\ ContainRootBlockByHash(db, r_header_pool, h)
                  = ContainRootBlockByHash(db, EmptyMap, h)
    /\ \A h \in 10..(10 + Len(MinorBlockList) + 1) :
           ContainMinorBlockByHash(db, m_header_pool, h)
               = ContainMinorBlockByHash(db, EmptyMap, h)
    /\ (last.op = "get_root_block_header_by_hash" /\ last.arg \in DOMAIN db.rblock) =>
           /\ last.ret = Some(RootBlockDeserialize(db.rblock[last.arg]).header)
           /\ last.arg \in DOMAIN r_header_pool
           /\ r_header_pool[last.arg] = Val(last.ret)

\* after a restart the header stored under 22 (put there with the hash argument, over
\* the block that was there) was looked up: a miss that filled the cache
C19_Witness ==
    /\ last.op = "get_root_block_header_by_hash"
    /\ last.arg = 22
    /\ last.pre = {}
    /\ last.ret = Some(RootBlockOf(23).header)
    /\ DOMAIN r_header_pool = {22}
    /\ 13 \in DOMAIN db.mblock

\* C20 as stated: in every state reached by put_minor_block, put_minor_block_index,
\* remove_minor_block_index, put_transaction_index_from_block and
\* remove_transaction_index_from_block over competing blocks, whenever
\* get_transaction_by_hash(t) returns a block and an index i, the block's tx_list has an
\* entry at i whose hash is t.
C20_LookupConsistent ==
    \A tx \in Transactions :
        LET got == TransactionByHash(db, TxHash(tx)) IN
        (got.status = "return" /\ ~IsNone(got.ret[1])) =>
            LET block == Val(got.ret[1])
                i == Val(got.ret[2])
            IN  /\ i < Len(block.tx_list)
                /\ TxHash(block.tx_list[i + 1]) = TxHash(tx)

=============================================================================
